---- MODULE Spec2Model ----
\* Model of github.com/jwowillo/ban: the IP / PrefixedIP types, the binary
\* trie that stores PrefixedIPs and answers membership queries, and the
\* http.Handler wrapper that bans the IPs a Banner points out.
EXTENDS Integers, Sequences, FiniteSets, TLC

VARIABLES trie, added, lastHas, texts,
          madeIPv4, madeIPv6, call,
          adders, reader,
          store, response

\* The IPs last made from an IPv4 and from an IPv6 address, and the last call
\* of a function of the IP / PrefixedIP types with what it returned.
ipVars == <<madeIPv4, madeIPv6, call>>

\* The goroutines that run trie.Add and trie.Has on the shared trie.
raceVars == <<adders, reader>>

\* The store of the Handler and the response to the last http.Request.
httpVars == <<store, response>>

vars == <<trie, added, lastHas, texts, ipVars, raceVars, httpVars>>

\* ---------------------------------------------------------------------
\* Bounds of the model
\* ---------------------------------------------------------------------

\* Number of Add calls made on one trie.
MaxAdds == 2

\* Number of textual ranges parsed for one trie.
MaxTexts == 2

\* ---------------------------------------------------------------------
\* Constants of the program
\* ---------------------------------------------------------------------

bitsPerByte == 8
ipv4Length == 4
ipv6Length == 16
ipLength == ipv6Length * bitsPerByte

\* A nil pointer.
nil == 0

\* The nil *PrefixedIP.
nilPrefixedIP == [nil |-> TRUE]

\* A nil error.
nilError == "<nil>"

ErrBadIP == "bad IP"
ErrBadPrefixedIP == "bad prefixed IP"
ErrBadPrefixLength == "prefix-length must be an integer less than or equal to 128"

\* ---------------------------------------------------------------------
\* Bit and byte helpers (Go operators on bytes)
\* ---------------------------------------------------------------------

\* for i := lo; i < hi; i++ { s = step(s, i) }. The range is split in halves
\* and the first half is evaluated ({left} # {}) before the second half starts,
\* so that the evaluation depth stays logarithmic in the number of iterations.
RECURSIVE For(_, _, _, _)
For(step(_, _), s, lo, hi) ==
    IF hi <= lo THEN s
    ELSE IF hi = lo + 1 THEN step(s, lo)
    ELSE LET mid == (lo + hi) \div 2
             left == For(step, s, lo, mid)
         IN  IF {left} # {} THEN For(step, left, mid, hi) ELSE left

\* An array literal, indexed from 0 as in Go.
Bytes(t) == [i \in 0..(Len(t) - 1) |-> t[i + 1]]

\* (ip[i/bitsPerByte] >> (bitsPerByte - 1 - i%bitsPerByte)) & 1
bitAtIndex(ip, i) ==
    (ip[i \div bitsPerByte] \div 2^(bitsPerByte - 1 - (i % bitsPerByte))) % 2

\* b & ^(1 << k) on a byte
ClearBit(b, k) == b - ((b \div 2^k) % 2) * 2^k

\* ---------------------------------------------------------------------
\* Text: a Go string is a sequence of one-character strings
\* ---------------------------------------------------------------------

DecDigits == <<"0", "1", "2", "3", "4", "5", "6", "7", "8", "9">>
HexLower == <<"a", "b", "c", "d", "e", "f">>
HexUpper == <<"A", "B", "C", "D", "E", "F">>

\* The position of character c in seq, 0 if it is not there.
IndexIn(seq, c) ==
    IF \E k \in 1..Len(seq) : seq[k] = c
    THEN CHOOSE k \in 1..Len(seq) : seq[k] = c
    ELSE 0

\* '0' <= c && c <= '9'
IsDigit(c) == IndexIn(DecDigits, c) # 0

\* int(c - '0')
DigitVal(c) == IndexIn(DecDigits, c) - 1

\* s[k:]
Drop(s, k) == SubSeq(s, k + 1, Len(s))

\* strings.Split(s, sep) for a one-character separator.
Split(s, sep) ==
    LET P == {i \in 1..Len(s) : s[i] = sep}
        n == Cardinality(P)
        pos(k) == IF k = 0 THEN 0
                  ELSE IF k = n + 1 THEN Len(s) + 1
                  ELSE CHOOSE q \in P : Cardinality({r \in P : r < q}) = k - 1
    IN  [k \in 1..(n + 1) |-> SubSeq(s, pos(k - 1) + 1, pos(k) - 1)]

\* strconv.Atoi: an optional sign followed by one or more decimal digits. The
\* texts of the model are far too short to exceed the range of int.
Atoi(s) ==
    LET signed == Len(s) > 0 /\ s[1] \in {"+", "-"}
        body == IF signed THEN Drop(s, 1) ELSE s
        val == For(LAMBDA n, i : n * 10 + DigitVal(body[i + 1]), 0, 0, Len(body))
    IN  IF Len(body) = 0 \/ \E k \in 1..Len(body) : ~IsDigit(body[k])
        THEN [n |-> 0, err |-> "strconv.Atoi: invalid syntax"]
        ELSE [n |-> IF signed /\ s[1] = "-" THEN 0 - val ELSE val,
              err |-> nilError]

\* ---------------------------------------------------------------------
\* net.ParseIP of the Go library, which ParseIP calls
\* ---------------------------------------------------------------------

\* The bound of the library's number scanners (0xFFFFFF).
big == 16777215

\* One iteration of the loop of dtoi.
dtoiStep(s, w, i) ==
    IF w.stop THEN w
    ELSE IF ~IsDigit(s[i + 1]) THEN [w EXCEPT !.stop = TRUE]
    ELSE LET n == w.n * 10 + DigitVal(s[i + 1])
         IN  IF n >= big
             THEN [n |-> big, i |-> i, stop |-> TRUE, ok |-> FALSE]
             ELSE [w EXCEPT !.n = n, !.i = i + 1]

\* The return of dtoi after its loop has left the state w.
dtoiReturn(w) ==
    IF ~w.ok THEN [n |-> w.n, i |-> w.i, ok |-> FALSE]
    ELSE IF w.i = 0 THEN [n |-> 0, i |-> 0, ok |-> FALSE]
    ELSE [n |-> w.n, i |-> w.i, ok |-> TRUE]

\* dtoi: the decimal number at the start of s, and the number of characters
\* it takes.
dtoi(s) ==
    dtoiReturn(For(LAMBDA v, i : dtoiStep(s, v, i),
                   [n |-> 0, i |-> 0, stop |-> FALSE, ok |-> TRUE],
                   0, Len(s)))

\* The value of a hexadecimal digit, -1 for any other character.
HexVal(c) ==
    IF IsDigit(c) THEN DigitVal(c)
    ELSE IF IndexIn(HexLower, c) # 0 THEN IndexIn(HexLower, c) + 9
    ELSE IF IndexIn(HexUpper, c) # 0 THEN IndexIn(HexUpper, c) + 9
    ELSE 0 - 1

\* One iteration of the loop of xtoi, h being the value of the character.
xtoiAccumulate(w, i, h) ==
    IF h < 0 THEN [w EXCEPT !.stop = TRUE]
    ELSE IF w.n * 16 + h >= big
    THEN [n |-> 0, i |-> i, stop |-> TRUE, ok |-> FALSE]
    ELSE [w EXCEPT !.n = w.n * 16 + h, !.i = i + 1]

\* One iteration of the loop of xtoi.
xtoiStep(s, w, i) ==
    IF w.stop THEN w ELSE xtoiAccumulate(w, i, HexVal(s[i + 1]))

\* The return of xtoi after its loop has left the state w.
xtoiReturn(w) ==
    IF ~w.ok THEN [n |-> 0, i |-> w.i, ok |-> FALSE]
    ELSE IF w.i = 0 THEN [n |-> 0, i |-> 0, ok |-> FALSE]
    ELSE [n |-> w.n, i |-> w.i, ok |-> TRUE]

\* xtoi: the hexadecimal number at the start of s, and the number of
\* characters it takes.
xtoi(s) ==
    xtoiReturn(For(LAMBDA v, i : xtoiStep(s, v, i),
                   [n |-> 0, i |-> 0, stop |-> FALSE, ok |-> TRUE],
                   0, Len(s)))

\* The nil net.IP.
NilNetIP == [ok |-> FALSE, ip |-> <<>>]

\* net.IPv4(a, b, c, d): the 16-byte form, with the prefix 0..0 ff ff.
netIPv4(p) ==
    [ok |-> TRUE,
     ip |-> [i \in 0..15 |->
                IF i < 10 THEN 0 ELSE IF i < 12 THEN 255 ELSE p[i - 12]]]

\* The end of an iteration of parseIPv4: d is what dtoi found at the start
\* of s1, which must be a number that fits a byte.
parseIPv4Field(w, i, s1, d) ==
    IF ~d.ok \/ d.n > 255
    THEN [w EXCEPT !.failed = TRUE]
    ELSE [s |-> Drop(s1, d.i), p |-> [w.p EXCEPT ![i] = d.n], failed |-> FALSE]

\* The part of an iteration of parseIPv4 that follows the separator, s1
\* being the text after it.
parseIPv4Number(w, i, s1) == parseIPv4Field(w, i, s1, dtoi(s1))

\* One iteration of the loop of parseIPv4: a '.' (not before the first
\* field) and a decimal number.
parseIPv4Step(w, i) ==
    IF w.failed THEN w
    ELSE IF Len(w.s) = 0 \/ (i > 0 /\ w.s[1] # ".")
    THEN [w EXCEPT !.failed = TRUE]
    ELSE parseIPv4Number(w, i, IF i > 0 THEN Drop(w.s, 1) ELSE w.s)

\* The return of parseIPv4 after its loop has left the state w.
parseIPv4Return(w) ==
    IF w.failed \/ Len(w.s) # 0 THEN NilNetIP ELSE netIPv4(w.p)

\* parseIPv4: four decimal fields separated by dots, nothing after them.
parseIPv4(s) ==
    parseIPv4Return(For(parseIPv4Step,
                        [s |-> s, p |-> [i \in 0..3 |-> 0], failed |-> FALSE],
                        0, 4))

\* The branch of parseIPv6 for a trailing dotted quad, ip4 being what
\* parseIPv4 made of the rest of the text.
parseIPv6Quad(w, ip4) ==
    IF ~ip4.ok THEN [w EXCEPT !.status = "fail"]
    ELSE [w EXCEPT
            !.ip = [j \in 0..15 |->
                       IF j >= w.i /\ j < w.i + 4
                       THEN ip4.ip[12 + j - w.i]
                       ELSE w.ip[j]],
            !.s = <<>>,
            !.i = w.i + 4,
            !.status = "break"]

\* The branch of parseIPv6 that has saved a 16-bit group: w1 is the state
\* after the group, s1 the text after it.
parseIPv6Separator(w, w1, s1) ==
    IF Len(s1) = 0 THEN [w1 EXCEPT !.status = "break"]
    ELSE IF s1[1] # ":" \/ Len(s1) = 1 THEN [w EXCEPT !.status = "fail"]
    ELSE IF s1[2] # ":" THEN [w1 EXCEPT !.s = Drop(s1, 1)]
    ELSE IF w.ellipsis >= 0 THEN [w EXCEPT !.status = "fail"]
    ELSE [w1 EXCEPT !.s = Drop(s1, 2),
                    !.ellipsis = w1.i,
                    !.status = IF Len(s1) = 2 THEN "break" ELSE "run"]

\* One iteration of the loop of parseIPv6, x being what xtoi found at the
\* start of the text.
parseIPv6Group(w, x) ==
    IF ~x.ok \/ x.n > 65535 THEN [w EXCEPT !.status = "fail"]
    ELSE IF x.i < Len(w.s) /\ w.s[x.i + 1] = "."
    THEN IF (w.ellipsis < 0 /\ w.i # 12) \/ w.i + 4 > 16
         THEN [w EXCEPT !.status = "fail"]
         ELSE parseIPv6Quad(w, parseIPv4(w.s))
    ELSE parseIPv6Separator(
            w,
            [w EXCEPT !.ip = [w.ip EXCEPT ![w.i] = x.n \div 256,
                                          ![w.i + 1] = x.n % 256],
                      !.i = w.i + 2,
                      !.s = Drop(w.s, x.i)],
            Drop(w.s, x.i))

\* One iteration of the loop of parseIPv6: a group of hexadecimal digits, or
\* a trailing dotted quad, then a colon or the ellipsis "::".
parseIPv6Step(w, k) ==
    IF w.status # "run" \/ w.i >= 16 THEN w ELSE parseIPv6Group(w, xtoi(w.s))

\* The return of parseIPv6 after its loop has left the state w: the whole
\* text must be used, and the ellipsis stands for the missing bytes.
parseIPv6Return(w) ==
    IF w.status = "fail" \/ Len(w.s) # 0 THEN NilNetIP
    ELSE IF w.i < 16
    THEN IF w.ellipsis < 0 THEN NilNetIP
         ELSE [ok |-> TRUE,
               ip |-> [j \in 0..15 |->
                          IF j < w.ellipsis THEN w.ip[j]
                          ELSE IF j < w.ellipsis + (16 - w.i) THEN 0
                          ELSE w.ip[j - (16 - w.i)]]]
    ELSE IF w.ellipsis >= 0 THEN NilNetIP
    ELSE [ok |-> TRUE, ip |-> w.ip]

\* parseIPv6 after its test for a leading "::": s0 is the text left and
\* ellipsis the position of the ellipsis, -1 if there is none yet.
parseIPv6Groups(s0, ellipsis) ==
    parseIPv6Return(For(parseIPv6Step,
                        [ip |-> [i \in 0..15 |-> 0], s |-> s0, i |-> 0,
                         ellipsis |-> ellipsis, status |-> "run"],
                        0, 8))

\* parseIPv6: up to eight groups; one "::" stands for the missing groups.
parseIPv6(s) ==
    IF Len(s) >= 2 /\ s[1] = ":" /\ s[2] = ":"
    THEN IF Len(s) = 2
         THEN [ok |-> TRUE, ip |-> [i \in 0..15 |-> 0]]
         ELSE parseIPv6Groups(Drop(s, 2), 0)
    ELSE parseIPv6Groups(s, 0 - 1)

\* net.ParseIP: the first '.' or ':' of the text decides the notation.
netParseIP(s) ==
    LET marks == {i \in 1..Len(s) : s[i] = "." \/ s[i] = ":"}
        first == CHOOSE i \in marks : \A j \in marks : i <= j
    IN  IF marks = {} THEN NilNetIP
        ELSE IF s[first] = "." THEN parseIPv4(s)
        ELSE parseIPv6(s)

\* ---------------------------------------------------------------------
\* IP
\* ---------------------------------------------------------------------

\* ipv4Prefix = IP{0, 0, 0, 0, 0, 0, 0, 0, 0, 0, 0xff, 0xff}
ipv4Prefix ==
    [i \in 0..(ipv6Length - 1) |-> IF i = 10 \/ i = 11 THEN 255 ELSE 0]

\* NewIPv4IP as it would be if ip started as the zero IP instead of the
\* IPv4-prefix.
NewIPv4IPZeroPrefix(addr) ==
    [i \in 0..(ipv6Length - 1) |->
        IF i >= ipv6Length - ipv4Length
        THEN addr[i - (ipv6Length - ipv4Length)]
        ELSE 0]

\* NewIPv4IP: the IPv4 bytes appended to the IPv4-prefix.
NewIPv4IP(addr) ==
    [i \in 0..(ipv6Length - 1) |->
        IF i >= ipv6Length - ipv4Length
        THEN addr[i - (ipv6Length - ipv4Length)]
        ELSE ipv4Prefix[i]]

\* The copy loop of ParseIP as it would be if only the last four bytes of an
\* IPv4 address were kept, on a prefix of zeros.
ParseIPCopyZeroPrefix(nip) ==
    IF ~nip.ok
    THEN [ip |-> [i \in 0..(ipv6Length - 1) |-> 0], err |-> ErrBadIP]
    ELSE [ip |-> [i \in 0..(ipv6Length - 1) |->
                    IF nip.ip[10] = 255 /\ nip.ip[11] = 255 /\ i < 12
                    THEN 0
                    ELSE nip.ip[i]],
          err |-> nilError]

\* ParseIP after its call of net.ParseIP, which returned nip: the bytes of
\* nip are copied over the end of the IPv4-prefix.
ParseIPCopy(nip) ==
    IF ~nip.ok
    THEN [ip |-> [i \in 0..(ipv6Length - 1) |-> 0], err |-> ErrBadIP]
    ELSE [ip |-> [i \in 0..(ipv6Length - 1) |->
                    IF i >= ipv6Length - Cardinality(DOMAIN nip.ip)
                    THEN nip.ip[i - (ipv6Length - Cardinality(DOMAIN nip.ip))]
                    ELSE ipv4Prefix[i]],
          err |-> nilError]

\* ParseIP: from the string form of the IPv4 or IPv6 address.
ParseIP(sip) == ParseIPCopy(netParseIP(sip))

\* ---------------------------------------------------------------------
\* PrefixedIP
\* ---------------------------------------------------------------------

\* NewPrefixedIP as it would be with the test pl >= ipLength.
NewPrefixedIPExclusive(ip, pl) ==
    IF pl >= ipLength
    THEN [pip |-> nilPrefixedIP, err |-> ErrBadPrefixLength]
    ELSE [pip |-> [ip |-> ip, prefixLength |-> pl], err |-> nilError]

\* NewPrefixedIP returns the pair (pointer, error).
NewPrefixedIP(ip, pl) ==
    IF pl > ipLength
    THEN [pip |-> nilPrefixedIP, err |-> ErrBadPrefixLength]
    ELSE [pip |-> [ip |-> ip, prefixLength |-> pl], err |-> nilError]

\* The end of ParsePrefixedIP as it would be if the prefix-length of a dotted quad
\* counted from the first of its 32 bits.
ParsePrefixedIPHalvesFamilyRelative(r, a) ==
    IF r.err # nilError THEN [pip |-> nilPrefixedIP, err |-> r.err]
    ELSE IF a.err # nilError THEN [pip |-> nilPrefixedIP, err |-> ErrBadPrefixLength]
    ELSE IF r.ip = NewIPv4IP([i \in 0..3 |-> r.ip[12 + i]])
    THEN IF a.n < 0 \/ a.n > ipv4Length * bitsPerByte
         THEN [pip |-> nilPrefixedIP, err |-> ErrBadPrefixLength]
         ELSE NewPrefixedIP(
                 r.ip, a.n + (ipv6Length - ipv4Length) * bitsPerByte)
    ELSE IF a.n < 0 \/ a.n > ipLength
    THEN [pip |-> nilPrefixedIP, err |-> ErrBadPrefixLength]
    ELSE NewPrefixedIP(r.ip, a.n % 256)

\* The end of ParsePrefixedIP as it would be without its own test of the
\* range of pl, leaving the test to NewPrefixedIP after the cast to a byte.
ParsePrefixedIPHalvesNoRange(r, a) ==
    IF r.err # nilError THEN [pip |-> nilPrefixedIP, err |-> r.err]
    ELSE IF a.err # nilError
    THEN [pip |-> nilPrefixedIP, err |-> ErrBadPrefixLength]
    ELSE NewPrefixedIP(r.ip, a.n % 256)

\* ParsePrefixedIP after the two halves have been converted: r is the result
\* of ParseIP and a the result of strconv.Atoi.
ParsePrefixedIPHalves(r, a) ==
    IF r.err # nilError THEN [pip |-> nilPrefixedIP, err |-> r.err]
    ELSE IF a.err # nilError THEN [pip |-> nilPrefixedIP, err |-> ErrBadPrefixLength]
    ELSE IF a.n < 0 \/ a.n > ipLength
    THEN [pip |-> nilPrefixedIP, err |-> ErrBadPrefixLength]
    ELSE NewPrefixedIP(r.ip, a.n % 256)

\* ParsePrefixedIP after strings.Split has returned split.
ParsePrefixedIPSplit(split) ==
    IF Len(split) # 2
    THEN [pip |-> nilPrefixedIP, err |-> ErrBadPrefixedIP]
    ELSE ParsePrefixedIPHalves(ParseIP(split[1]), Atoi(split[2]))

\* ParsePrefixedIP: "<ip>/<prefix-length>".
ParsePrefixedIP(pip) == ParsePrefixedIPSplit(Split(pip, "/"))

\* One iteration of the masking loop of PrefixedIP.IP: clear bit i.
IPMaskStep(ip, i) ==
    [ip EXCEPT ![i \div bitsPerByte] =
        ClearBit(@, bitsPerByte - 1 - (i % bitsPerByte))]

\* PrefixedIP.IP as it would be if the loop started one bit late, which the
\* inner loop of TestPrefixedIP (from i + 1) would not notice.
IPMaskFromNext(p) == For(IPMaskStep, p.ip, p.prefixLength + 1, ipLength)

\* PrefixedIP.IP: the IP with all bits after the prefix masked.
IP(p) == For(IPMaskStep, p.ip, p.prefixLength, ipLength)

\* PrefixedIP.PrefixLength
PrefixLength(p) == p.prefixLength

\* ---------------------------------------------------------------------
\* trie
\* ---------------------------------------------------------------------

\* &node{}: IsEnd false, both children nil.
node == [IsEnd |-> FALSE, Children |-> [c \in 0..1 |-> nil]]

\* newTrie: the heap holds the nodes; a *node is an index into it.
newTrie == [root |-> 1, heap |-> <<node>>]

\* One iteration of the loop of trie.Add. w.returned is set once the loop has
\* hit the early return; the remaining iterations then do nothing.
AddStep(ip, w, i) ==
    IF w.returned THEN w
    ELSE LET child == bitAtIndex(ip, i)
             heap1 == IF w.heap[w.current].Children[child] = nil
                      THEN Append(
                              [w.heap EXCEPT ![w.current].Children[child] =
                                  Len(w.heap) + 1],
                              node)
                      ELSE w.heap
             next == heap1[w.current].Children[child]
         IN  [heap |-> heap1, current |-> next, returned |-> heap1[next].IsEnd]

\* AddStep without the nil test: a fresh node replaces the child every time.
AddStepAlwaysAlloc(ip, w, i) ==
    IF w.returned THEN w
    ELSE LET child == bitAtIndex(ip, i)
             heap1 == Append(
                         [w.heap EXCEPT ![w.current].Children[child] =
                             Len(w.heap) + 1],
                         node)
             next == heap1[w.current].Children[child]
         IN  [heap |-> heap1, current |-> next, returned |-> heap1[next].IsEnd]

\* Add as it would be if the loop allocated a node on every iteration.
AddAlwaysAlloc(m, pip) ==
    LET ip == IP(pip)
        pl == PrefixLength(pip)
        w == For(LAMBDA v, i : AddStepAlwaysAlloc(ip, v, i),
                 [heap |-> m.heap, current |-> m.root, returned |-> FALSE],
                 0, pl)
    IN  IF w.returned
        THEN [m EXCEPT !.heap = w.heap]
        ELSE [m EXCEPT !.heap = [w.heap EXCEPT ![w.current].IsEnd = TRUE]]

\* Add as it would be if the loop started at bit 1: one level too few.
AddOneShort(m, pip) ==
    LET ip == IP(pip)
        pl == PrefixLength(pip)
        w == For(LAMBDA v, i : AddStep(ip, v, i),
                 [heap |-> m.heap, current |-> m.root, returned |-> FALSE],
                 1, pl)
    IN  IF w.returned
        THEN [m EXCEPT !.heap = w.heap]
        ELSE [m EXCEPT !.heap = [w.heap EXCEPT ![w.current].IsEnd = TRUE]]

\* Add as it would be if a node that already has children were never marked.
AddLeafOnly(m, pip) ==
    LET ip == IP(pip)
        pl == PrefixLength(pip)
        w == For(LAMBDA v, i : AddStep(ip, v, i),
                 [heap |-> m.heap, current |-> m.root, returned |-> FALSE],
                 0, pl)
    IN  IF w.returned \/ w.heap[w.current].Children # node.Children
        THEN [m EXCEPT !.heap = w.heap]
        ELSE [m EXCEPT !.heap = [w.heap EXCEPT ![w.current].IsEnd = TRUE]]

\* trie.Add: add the PrefixedIP to the trie.
Add(m, pip) ==
    LET ip == IP(pip)
        pl == PrefixLength(pip)
        w == For(LAMBDA v, i : AddStep(ip, v, i),
                 [heap |-> m.heap, current |-> m.root, returned |-> FALSE],
                 0, pl)
    IN  IF w.returned
        THEN [m EXCEPT !.heap = w.heap]
        ELSE [m EXCEPT !.heap = [w.heap EXCEPT ![w.current].IsEnd = TRUE]]

\* One iteration of the loop of trie.Has. w.returned is set by the return
\* inside the loop, w.broke by the break.
HasStep(m, ip, w, i) ==
    IF w.returned \/ w.broke THEN w
    ELSE IF m.heap[w.current].IsEnd
         THEN [w EXCEPT !.returned = TRUE]
         ELSE LET next == m.heap[w.current].Children[bitAtIndex(ip, i)]
              IN  [w EXCEPT !.current = next, !.broke = (next = nil)]

\* Has as it would be if the node reached after the last bit were not tested.
HasNoFinalTest(m, ip) ==
    LET w == For(LAMBDA v, i : HasStep(m, ip, v, i),
                 [current |-> m.root, returned |-> FALSE, broke |-> FALSE],
                 0, ipLength)
    IN  w.returned

\* HasStep with the terminal test made after the descent, so that the root
\* is never tested.
HasStepTestAfter(m, ip, w, i) ==
    IF w.returned \/ w.broke THEN w
    ELSE LET next == m.heap[w.current].Children[bitAtIndex(ip, i)]
         IN  IF next = nil
             THEN [w EXCEPT !.current = next, !.broke = TRUE]
             ELSE [w EXCEPT !.current = next, !.returned = m.heap[next].IsEnd]

\* Has as it would be with the terminal test after the descent.
HasTestAfter(m, ip) ==
    LET w == For(LAMBDA v, i : HasStepTestAfter(m, ip, v, i),
                 [current |-> m.root, returned |-> FALSE, broke |-> FALSE],
                 0, ipLength)
    IN  w.returned

\* trie.Has: true if the IP matches a PrefixedIP stored in the trie.
Has(m, ip) ==
    LET w == For(LAMBDA v, i : HasStep(m, ip, v, i),
                 [current |-> m.root, returned |-> FALSE, broke |-> FALSE],
                 0, ipLength)
    IN  IF w.returned
        THEN TRUE
        ELSE w.current # nil /\ m.heap[w.current].IsEnd

\* ---------------------------------------------------------------------
\* Inputs
\* ---------------------------------------------------------------------

IPv4(a, b, c, d) == Bytes(<<a, b, c, d>>)

ZeroIP == [i \in 0..(ipv6Length - 1) |-> 0]
FullIP == [i \in 0..(ipv6Length - 1) |-> 255]
LoopbackIP == [ZeroIP EXCEPT ![15] = 1]

\* The IPs and prefix-lengths handed to NewPrefixedIP.
IPPool == {LoopbackIP, NewIPv4IP(IPv4(1, 2, 3, 4))}

PrefixLengthPool == {0, 96, 128}

\* The IPs handed to Has.
QueryPool ==
    { LoopbackIP, [ZeroIP EXCEPT ![15] = 2],
      NewIPv4IP(IPv4(1, 2, 3, 4)), NewIPv4IP(IPv4(1, 2, 3, 5)) }

\* No Has call has been made since the last Add.
NoQuery == [asked |-> FALSE, ip |-> ZeroIP, res |-> FALSE]

\* ---------------------------------------------------------------------
\* Specification: one trie, PrefixedIPs built by NewPrefixedIP
\* ---------------------------------------------------------------------

\* No IP has been made yet.
NoIP == [made |-> FALSE, ip |-> ZeroIP, from |-> <<>>]

\* No function of the IP / PrefixedIP types has been called yet.
NoCall == [op |-> "none"]

\* No goroutine runs trie.Add.
NoAdders == <<>>

\* No goroutine runs trie.Has.
NoReader == [pc |-> "idle"]

\* The Handler has no store (Config.StorePath is empty).
NoStore == [open |-> FALSE, exists |-> FALSE, lines |-> <<>>]

\* No http.Request has been served yet.
NoResponse == [served |-> 0, status |-> 0]

Init ==
    /\ trie = newTrie
    /\ added = <<>>
    /\ lastHas = NoQuery
    /\ texts = <<>>
    /\ madeIPv4 = NoIP
    /\ madeIPv6 = NoIP
    /\ call = NoCall
    /\ adders = NoAdders
    /\ reader = NoReader
    /\ store = NoStore
    /\ response = NoResponse

\* pip, err := NewPrefixedIP(ip, pl); m.Add(pip)
AddPrefixed(ip, pl) ==
    /\ Len(added) < MaxAdds
    /\ LET r == NewPrefixedIP(ip, pl)
       IN  /\ r.err = nilError
           /\ trie' = Add(trie, r.pip)
           /\ added' = Append(added, r.pip)
    /\ lastHas' = NoQuery
    /\ UNCHANGED <<texts, ipVars, raceVars, httpVars>>

\* m.Has(ip)
HasQuery(ip) ==
    /\ lastHas' = [asked |-> TRUE, ip |-> ip, res |-> Has(trie, ip)]
    /\ UNCHANGED <<trie, added, texts, ipVars, raceVars, httpVars>>

Next ==
    \/ \E ip \in IPPool, pl \in PrefixLengthPool : AddPrefixed(ip, pl)
    \/ \E ip \in QueryPool : HasQuery(ip)

Spec == Init /\ [][Next]_vars

\* ---------------------------------------------------------------------
\* Specification: one trie, PrefixedIPs parsed from text
\* ---------------------------------------------------------------------

\* "203.0.113.0/24"
Text203Slash24 ==
    <<"2", "0", "3", ".", "0", ".", "1", "1", "3", ".", "0", "/", "2", "4">>

\* "203.0.113.0/120"
Text203Slash120 ==
    <<"2", "0", "3", ".", "0", ".", "1", "1", "3", ".", "0", "/", "1", "2",
    "0">>

\* "255.255.255.255/32"
TextV4FullSlash32 ==
    <<"2", "5", "5", ".", "2", "5", "5", ".", "2", "5", "5", ".", "2", "5",
    "5", "/", "3", "2">>

\* "255.255.255.255/128"
TextV4FullSlash128 ==
    <<"2", "5", "5", ".", "2", "5", "5", ".", "2", "5", "5", ".", "2", "5",
    "5", "/", "1", "2", "8">>

\* "0.0.0.0/80"
TextV4ZeroSlash80 ==
    <<"0", ".", "0", ".", "0", ".", "0", "/", "8", "0">>

\* "0.0.0.0/81"
TextV4ZeroSlash81 ==
    <<"0", ".", "0", ".", "0", ".", "0", "/", "8", "1">>

\* "0.0.0.0/128"
TextV4ZeroSlash128 ==
    <<"0", ".", "0", ".", "0", ".", "0", "/", "1", "2", "8">>

\* "::/128"
TextV6ZeroSlash128 ==
    <<":", ":", "/", "1", "2", "8">>

\* "ffff:ffff:ffff:ffff:ffff:ffff:ffff:ffff/128"
TextV6FullSlash128 ==
    <<"f", "f", "f", "f", ":", "f", "f", "f", "f", ":", "f", "f", "f", "f",
    ":", "f", "f", "f", "f", ":", "f", "f", "f", "f", ":", "f", "f", "f",
    "f", ":", "f", "f", "f", "f", ":", "f", "f", "f", "f", "/", "1", "2",
    "8">>

\* "203.0.113.200"
Text203_200 ==
    <<"2", "0", "3", ".", "0", ".", "1", "1", "3", ".", "2", "0", "0">>

\* "203.0.114.1"
Text203_114_1 ==
    <<"2", "0", "3", ".", "0", ".", "1", "1", "4", ".", "1">>

\* "255.255.255.255"
TextV4Full ==
    <<"2", "5", "5", ".", "2", "5", "5", ".", "2", "5", "5", ".", "2", "5",
    "5">>

\* "0.0.0.0"
TextV4Zero ==
    <<"0", ".", "0", ".", "0", ".", "0">>

\* "::"
TextV6Zero ==
    <<":", ":">>

\* "::1"
TextV6One ==
    <<":", ":", "1">>

\* "ffff:ffff:ffff:ffff:ffff:ffff:ffff:ffff"
TextV6Full ==
    <<"f", "f", "f", "f", ":", "f", "f", "f", "f", ":", "f", "f", "f", "f",
    ":", "f", "f", "f", "f", ":", "f", "f", "f", "f", ":", "f", "f", "f",
    "f", ":", "f", "f", "f", "f", ":", "f", "f", "f", "f">>

\* The texts handed to ParsePrefixedIP.
RangeTextPool ==
    { Text203Slash24,
      Text203Slash120,
      TextV4FullSlash32,
      TextV4FullSlash128,
      TextV4ZeroSlash80,
      TextV4ZeroSlash81,
      TextV4ZeroSlash128,
      TextV6ZeroSlash128,
      TextV6FullSlash128 }

\* The texts handed to ParseIP before Has.
QueryTextPool ==
    { Text203_200,
      Text203_114_1,
      TextV4Full,
      TextV4Zero,
      TextV6Zero,
      TextV6One,
      TextV6Full }

\* AddParsed after ParsePrefixedIP has returned r.
AddParsedResult(r) ==
    IF r.err = nilError
    THEN /\ trie' = Add(trie, r.pip)
         /\ added' = Append(added, r.pip)
    ELSE UNCHANGED <<trie, added>>

\* pip, err := ParsePrefixedIP(text); if err == nil { m.Add(pip) }
AddParsed(text) ==
    /\ Len(texts) < MaxTexts
    /\ texts' = Append(texts, text)
    /\ AddParsedResult(ParsePrefixedIP(text))
    /\ lastHas' = NoQuery
    /\ UNCHANGED <<ipVars, raceVars, httpVars>>

\* HasParsed after ParseIP has returned r.
HasParsedResult(r) ==
    /\ r.err = nilError
    /\ lastHas' = [asked |-> TRUE, ip |-> r.ip, res |-> Has(trie, r.ip)]

\* ip, err := ParseIP(text); if err == nil { m.Has(ip) }
HasParsed(text) ==
    /\ HasParsedResult(ParseIP(text))
    /\ UNCHANGED <<trie, added, texts, ipVars, raceVars, httpVars>>

NextText ==
    \/ \E text \in RangeTextPool : AddParsed(text)
    \/ \E text \in QueryTextPool : HasParsed(text)

SpecText == Init /\ [][NextText]_vars

\* ---------------------------------------------------------------------
\* Vocabulary of the properties
\* ---------------------------------------------------------------------

\* a agrees with r.IP() on the first r.PrefixLength() bits.
Covers(r, a) ==
    LET rip == IP(r)
    IN  \A i \in 0..(PrefixLength(r) - 1) : bitAtIndex(rip, i) = bitAtIndex(a, i)

Last(seq) == seq[Len(seq)]

\* The trie obtained by adding the PrefixedIPs of seq, in the order given by
\* the permutation perm of its indices, to an empty trie.
AddAll(seq, perm) ==
    For(LAMBDA m, i : Add(m, seq[perm[i + 1]]), newTrie, 0, Len(seq))

\* The nodes met from the root along the first d bits of ip, the root first;
\* the walk stops where the path leaves the trie.
PathNodes(m, ip, d) ==
    For(LAMBDA ns, i :
            LET n == m.heap[Last(ns)].Children[bitAtIndex(ip, i)]
            IN  IF Len(ns) = i + 1 /\ n # nil THEN Append(ns, n) ELSE ns,
        <<m.root>>, 0, d)

\* Some node on the bit-path of r, the root included, is terminal in m.
TerminalOnPath(m, r) ==
    LET ns == PathNodes(m, IP(r), PrefixLength(r))
    IN  \E k \in 1..Len(ns) : m.heap[ns[k]].IsEnd

\* ---------------------------------------------------------------------
\* Properties of the trie
\* ---------------------------------------------------------------------

\* C1 (coverage): after any sequence of Adds, Has(a) is true for every address
\* a that agrees with an added PrefixedIP r on the first r.PrefixLength() bits.
Coverage ==
    \A k \in 1..Len(added) : \A a \in QueryPool :
        Covers(added[k], a) => Has(trie, a)

\* A Has that answered true for an address other than the range's own, inside
\* a range that is neither everything nor a single address.
CoverageWitness ==
    /\ lastHas.asked
    /\ lastHas.res
    /\ \E k \in 1..Len(added) :
           /\ PrefixLength(added[k]) = 96
           /\ Covers(added[k], lastHas.ip)
           /\ lastHas.ip # IP(added[k])
           /\ lastHas.ip # added[k].ip

\* C2 (non-coverage): an address that differs from every added PrefixedIP
\* within that PrefixedIP's first PrefixLength() bits is not in the trie.
NonCoverage ==
    \A a \in QueryPool :
        (\A k \in 1..Len(added) : ~Covers(added[k], a)) => ~Has(trie, a)

\* A Has that answered false for an address that shares all but its last
\* bits with an added single-address range.
NonCoverageWitness ==
    /\ lastHas.asked
    /\ ~lastHas.res
    /\ \E k \in 1..Len(added) :
           /\ PrefixLength(added[k]) = ipLength
           /\ \A i \in 0..(ipLength - 3) :
                  bitAtIndex(IP(added[k]), i) = bitAtIndex(lastHas.ip, i)

\* C3 (order independence): every order of adding the same PrefixedIPs to an
\* empty trie gives the same Has answer for every address.
OrderIndependence ==
    \A perm \in Permutations(1..Len(added)) :
        LET m == AddAll(added, perm)
        IN  \A a \in QueryPool : Has(m, a) = Has(trie, a)

\* A narrower range was added before a broader one that covers it, and the
\* opposite order builds a different trie.
OrderIndependenceWitness ==
    /\ Len(added) >= 2
    /\ PrefixLength(added[1]) > PrefixLength(added[2])
    /\ Covers(added[2], IP(added[1]))
    /\ Add(Add(newTrie, added[2]), added[1]) # Add(Add(newTrie, added[1]), added[2])
    /\ lastHas.asked

\* C4 (idempotence): right after Add(r), a second Add(r) leaves the trie as
\* it is: the same nodes, the same terminal flags, the same Has answers.
Idempotence ==
    Len(added) > 0 =>
        LET again == Add(trie, Last(added))
        IN  /\ Len(again.heap) = Len(trie.heap)
            /\ again = trie
            /\ \A a \in QueryPool : Has(again, a) = Has(trie, a)

\* The same PrefixedIP with a non-empty prefix was added twice in a row, and
\* the first of the two Adds allocated nodes.
IdempotenceWitness ==
    /\ Len(added) >= 2
    /\ added[Len(added)] = added[Len(added) - 1]
    /\ PrefixLength(Last(added)) > 0
    /\ Len(trie.heap) > 1
    /\ ~TerminalOnPath(newTrie, Last(added))
    /\ Len(added) = 2

\* C5 (absorption): an Add(r) made while a node on the bit-path of r, the
\* root included, is already terminal changes nothing in the trie.
Absorption ==
    [][\A ip \in IPPool, pl \in PrefixLengthPool :
          (AddPrefixed(ip, pl) /\ TerminalOnPath(trie, NewPrefixedIP(ip, pl).pip))
              => trie' = trie]_vars

\* C6 (monotonic membership): an address for which Has is true stays in the
\* trie through every later operation.
MonotonicMembership ==
    [][\A a \in QueryPool : Has(trie, a) => Has(trie', a)]_vars

\* A broader range was added after a narrower one, and an address of the
\* narrower one was then found.
MonotonicMembershipWitness ==
    /\ Len(added) >= 2
    /\ PrefixLength(added[1]) = ipLength
    /\ PrefixLength(added[2]) = 96
    /\ Covers(added[2], IP(added[1]))
    /\ lastHas.ip = IP(added[1])
    /\ lastHas.res

\* C7: once a PrefixedIP with prefix-length 0 is in the sequence of Adds, Has
\* is true for every address, whatever was added before or after it.
EmptyPrefixCoversAll ==
    (\E k \in 1..Len(added) : PrefixLength(added[k]) = 0) =>
        \A a \in QueryPool : Has(trie, a)

\* A longer range was added after a prefix-length 0, and Has was then true
\* for an address that the longer range does not cover.
EmptyPrefixCoversAllWitness ==
    /\ Len(added) = 2
    /\ PrefixLength(added[1]) = 0
    /\ PrefixLength(added[2]) > 0
    /\ lastHas.asked
    /\ lastHas.res
    /\ ~Covers(added[2], lastHas.ip)

\* ---------------------------------------------------------------------
\* Properties of parsed ranges
\* ---------------------------------------------------------------------

IP203_0_113_0 == NewIPv4IP(IPv4(203, 0, 113, 0))
IP203_0_113_200 == NewIPv4IP(IPv4(203, 0, 113, 200))
IP203_0_114_1 == NewIPv4IP(IPv4(203, 0, 114, 1))
V4Zero == NewIPv4IP(IPv4(0, 0, 0, 0))
V4Full == NewIPv4IP(IPv4(255, 255, 255, 255))
V6Zero == ZeroIP
V6Full == FullIP

\* C8: "203.0.113.0/P" is the range of the addresses that share the first P
\* of the 128 bits of ::ffff:203.0.113.0. After adding "203.0.113.0/120" to
\* an empty trie Has(203.0.113.200) is true and Has(203.0.114.1) is false;
\* after adding "203.0.113.0/24" both are true.
DottedQuadRange ==
    /\ (Len(texts) = 1 /\ texts[1] \in {Text203Slash24, Text203Slash120}) =>
          /\ Len(added) = 1
          /\ added[1].ip = IP203_0_113_0
          /\ \A a \in {IP203_0_113_200, IP203_0_114_1, V4Zero, V6Zero, V6Full} :
                Has(trie, a) <=> Covers(added[1], a)
    /\ texts = <<Text203Slash120>> =>
          /\ PrefixLength(added[1]) = 120
          /\ Has(trie, IP203_0_113_200)
          /\ ~Has(trie, IP203_0_114_1)
    /\ texts = <<Text203Slash24>> =>
          /\ PrefixLength(added[1]) = 24
          /\ Has(trie, IP203_0_113_200)
          /\ Has(trie, IP203_0_114_1)

\* "203.0.113.0/120" alone was added and Has("203.0.114.1") answered false.
DottedQuadRangeWitness ==
    /\ texts = <<Text203Slash120>>
    /\ lastHas.asked
    /\ lastHas.ip = IP203_0_114_1
    /\ ~lastHas.res

\* C8 as stated: after adding "203.0.113.0/24" to an empty trie
\* Has(203.0.113.200) is true and Has(203.0.114.1) is false.
DottedQuadRangeAsStated ==
    texts = <<Text203Slash24>> =>
        /\ Has(trie, IP203_0_113_200)
        /\ ~Has(trie, IP203_0_114_1)

\* C9: after adding "255.255.255.255/128" and "::/128" to an empty trie
\* Has(255.255.255.255) is true and Has(::1) is false; with
\* "255.255.255.255/32" in place of the first, both are true.
FullPrefixRanges ==
    /\ texts = <<TextV4FullSlash128, TextV6ZeroSlash128>> =>
          /\ Len(added) = 2
          /\ Has(trie, V4Full)
          /\ ~Has(trie, LoopbackIP)
    /\ texts = <<TextV4FullSlash32, TextV6ZeroSlash128>> =>
          /\ Len(added) = 2
          /\ Has(trie, V4Full)
          /\ Has(trie, LoopbackIP)

\* "255.255.255.255/128" and "::/128" were added and Has("::1") answered
\* false.
FullPrefixRangesWitness ==
    /\ texts = <<TextV4FullSlash128, TextV6ZeroSlash128>>
    /\ lastHas.asked
    /\ lastHas.ip = LoopbackIP
    /\ ~lastHas.res

\* C9 as stated: after adding "255.255.255.255/32" and "::/128" to an empty
\* trie Has(255.255.255.255) is true and Has(::1) is false.
FullPrefixRangesAsStated ==
    texts = <<TextV4FullSlash32, TextV6ZeroSlash128>> =>
        /\ Has(trie, V4Full)
        /\ ~Has(trie, LoopbackIP)

\* The ranges added so far were all parsed, without error, from texts of the
\* set ts, and there is at least one.
OnlyParsedFrom(ts) ==
    /\ Len(texts) > 0
    /\ Len(added) = Len(texts)
    /\ \A k \in 1..Len(texts) : texts[k] \in ts

\* Range texts whose address half is 0.0.0.0, 255.255.255.255, ::, ffff:...
V4ZeroRangeTexts == {TextV4ZeroSlash80, TextV4ZeroSlash81, TextV4ZeroSlash128}
V4FullRangeTexts == {TextV4FullSlash32, TextV4FullSlash128}
V6ZeroRangeTexts == {TextV6ZeroSlash128}
V6FullRangeTexts == {TextV6FullSlash128}

\* C10 (family separation): ranges of prefix-length 81 or more built from
\* 0.0.0.0 or 255.255.255.255 match neither :: nor ffff:...:ffff, and ranges
\* of prefix-length 81 or more built from :: or ffff:...:ffff match neither
\* 0.0.0.0 nor 255.255.255.255.
FamilySeparation ==
    (\A k \in 1..Len(added) : PrefixLength(added[k]) >= 81) =>
        /\ OnlyParsedFrom(V4ZeroRangeTexts \cup V4FullRangeTexts) =>
              ~Has(trie, V6Zero) /\ ~Has(trie, V6Full)
        /\ OnlyParsedFrom(V6ZeroRangeTexts \cup V6FullRangeTexts) =>
              ~Has(trie, V4Zero) /\ ~Has(trie, V4Full)

\* "0.0.0.0/128" and "255.255.255.255/128" were added, in either order, and
\* Has("::") answered false.
FamilySeparationWitness ==
    /\ Len(texts) = 2
    /\ {texts[1], texts[2]} = {TextV4ZeroSlash128, TextV4FullSlash128}
    /\ Len(added) = 2
    /\ {added[1].ip, added[2].ip} = {V4Zero, V4Full}
    /\ lastHas.asked
    /\ lastHas.ip = V6Zero
    /\ ~lastHas.res

\* C10 as stated: whatever their prefix-lengths, ranges built from the IPv4
\* address of a byte pattern never match the IPv6 address of that pattern,
\* and ranges built from the IPv6 address never match the IPv4 address.
FamilySeparationAsStated ==
    /\ OnlyParsedFrom(V4ZeroRangeTexts) => ~Has(trie, V6Zero)
    /\ OnlyParsedFrom(V4FullRangeTexts) => ~Has(trie, V6Full)
    /\ OnlyParsedFrom(V6ZeroRangeTexts) => ~Has(trie, V4Zero)
    /\ OnlyParsedFrom(V6FullRangeTexts) => ~Has(trie, V4Full)

\* ---------------------------------------------------------------------
\* Go library: net.IP.String, as IP.String and PrefixedIP.String call it
\* ---------------------------------------------------------------------

\* The digits of appendHex.
hexDigit ==
    <<"0", "1", "2", "3", "4", "5", "6", "7",
      "8", "9", "a", "b", "c", "d", "e", "f">>

\* uitoa: the decimal form of an unsigned integer.
RECURSIVE uitoa(_)
uitoa(val) ==
    IF val < 10 THEN <<DecDigits[val + 1]>>
    ELSE Append(uitoa(val \div 10), DecDigits[(val % 10) + 1])

\* appendHex: the hexadecimal form of a 16-bit group, without leading zeros.
RECURSIVE appendHex(_, _)
appendHex(b, i) ==
    IF i < 16 THEN Append(b, hexDigit[i + 1])
    ELSE Append(appendHex(b, i \div 16), hexDigit[(i % 16) + 1])

\* IP.To4: the last four bytes if the first twelve are the IPv4-prefix, an
\* empty slice if they are not.
To4(p) ==
    IF (\A i \in 0..9 : p[i] = 0) /\ p[10] = 255 /\ p[11] = 255
    THEN <<p[12], p[13], p[14], p[15]>>
    ELSE <<>>

\* The inner loop of the search for the longest run of zeros: the end of the
\* run of zero groups that starts at byte j.
RECURSIVE zeroRunEnd(_, _)
zeroRunEnd(p, j) ==
    IF j < ipv6Length /\ p[j] = 0 /\ p[j + 1] = 0
    THEN zeroRunEnd(p, j + 2)
    ELSE j

\* The outer loop of the search for the longest run of zeros, from byte i
\* with the best run [e.e0, e.e1) found so far; a run replaces it only if it
\* is strictly longer.
RECURSIVE longestZeroRun(_, _, _)
longestZeroRun(p, i, e) ==
    IF i >= ipv6Length THEN e
    ELSE IF zeroRunEnd(p, i) > i /\ zeroRunEnd(p, i) - i > e.e1 - e.e0
    THEN longestZeroRun(p, zeroRunEnd(p, i) + 2,
                        [e0 |-> i, e1 |-> zeroRunEnd(p, i)])
    ELSE longestZeroRun(p, i + 2, e)

\* "::" must not be used to shorten just one 16-bit group of zeros.
ellipsisOf(e) ==
    IF e.e1 - e.e0 <= 2 THEN [e0 |-> 0 - 1, e1 |-> 0 - 1] ELSE e

\* The printing loop of net.IP.String, from byte i with b printed so far.
RECURSIVE printGroups(_, _, _, _)
printGroups(p, i, e, b) ==
    IF i >= ipv6Length THEN b
    ELSE IF i = e.e0
    THEN IF e.e1 >= ipv6Length THEN b \o <<":", ":">>
         ELSE printGroups(
                 p, e.e1 + 2, e,
                 appendHex(b \o <<":", ":">>, p[e.e1] * 256 + p[e.e1 + 1]))
    ELSE printGroups(
            p, i + 2, e,
            appendHex(IF i > 0 THEN Append(b, ":") ELSE b,
                      p[i] * 256 + p[i + 1]))

\* net.IP.String after To4 has returned p4.
netIPStringOf(p, p4) ==
    IF Len(p4) = ipv4Length
    THEN uitoa(p4[1]) \o <<".">> \o uitoa(p4[2]) \o <<".">>
         \o uitoa(p4[3]) \o <<".">> \o uitoa(p4[4])
    ELSE printGroups(
            p, 0,
            ellipsisOf(longestZeroRun(p, 0, [e0 |-> 0 - 1, e1 |-> 0 - 1])),
            <<>>)

\* net.IP.String: dotted decimal for an IPv4 address in 16-byte form, groups
\* of hexadecimal digits with the longest run of zeros elided otherwise.
netIPString(p) == netIPStringOf(p, To4(p))

\* IP.String
IPString(ip) == netIPString(ip)

\* PrefixedIP.String: fmt.Sprintf("%s/%d", p.IP(), p.prefixLength)
PrefixedIPString(p) == IPString(IP(p)) \o <<"/">> \o uitoa(p.prefixLength)

\* ---------------------------------------------------------------------
\* Specification: the functions of the IP and PrefixedIP types, called once
\* each on IPs made by NewIPv4IP and ParseIP
\* ---------------------------------------------------------------------

\* "1.2.3.4"
TextIP1234 ==
    <<"1", ".", "2", ".", "3", ".", "4">>

\* "::ffff:102:304"
TextIPMapped1234Hex ==
    <<":", ":", "f", "f", "f", "f", ":", "1", "0", "2", ":", "3", "0", "4">>

\* "::ffff:1.2.3.4"
TextIPMapped1234Dotted ==
    <<":", ":", "f", "f", "f", "f", ":", "1", ".", "2", ".", "3", ".", "4">>

\* "::102:304"
TextIPCompat1234 ==
    <<":", ":", "1", "0", "2", ":", "3", "0", "4">>

\* "11:2233:4455:6677:8899:aabb:ccdd:eeff"
TextIPTest ==
    <<"1", "1", ":", "2", "2", "3", "3", ":", "4", "4", "5", "5", ":", "6",
      "6", "7", "7", ":", "8", "8", "9", "9", ":", "a", "a", "b", "b", ":",
      "c", "c", "d", "d", ":", "e", "e", "f", "f">>

\* "1.2.3.a"
TextIPBadOctet ==
    <<"1", ".", "2", ".", "3", ".", "a">>

\* "1111::1111::"
TextIPTwoEllipses ==
    <<"1", "1", "1", "1", ":", ":", "1", "1", "1", "1", ":", ":">>

\* "0:0"
TextIPTwoGroups ==
    <<"0", ":", "0">>

\* ""
TextEmpty == <<>>

\* "0"
TextLen0 ==
    <<"0">>

\* "24"
TextLen24 ==
    <<"2", "4">>

\* "127"
TextLen127 ==
    <<"1", "2", "7">>

\* "128"
TextLen128 ==
    <<"1", "2", "8">>

\* "129"
TextLen129 ==
    <<"1", "2", "9">>

\* "256"
TextLen256 ==
    <<"2", "5", "6">>

\* "384"
TextLen384 ==
    <<"3", "8", "4">>

\* "a"
TextLenLetter ==
    <<"a">>

\* "-1"
TextLenMinus1 ==
    <<"-", "1">>

\* "-256"
TextLenMinus256 ==
    <<"-", "2", "5", "6">>

\* "1.2.3.4/0/0"
TextTwoSlashes ==
    <<"1", ".", "2", ".", "3", ".", "4", "/", "0", "/", "0">>

\* "//"
TextOnlySlashes ==
    <<"/", "/">>

\* The IPv4 addresses given to NewIPv4IP.
IPv4Pool == {IPv4(0, 0, 0, 0), IPv4(1, 2, 3, 4), IPv4(255, 255, 255, 255)}

\* The dotted-quad texts given to ParseIP.
IPv4TextPool == {TextIP1234}

\* The IPv6 texts given to ParseIP.
IPv6TextPool ==
    { TextV6Zero, TextIPCompat1234, TextIPMapped1234Hex,
      TextIPMapped1234Dotted, TextIPTest, TextV6Full }

\* The address halves and the length halves of the texts given to
\* ParsePrefixedIP, and the texts without exactly one separator.
AddressHalfPool ==
    { TextIP1234, TextV6Zero, TextV6One,
      TextIPBadOctet, TextIPTwoEllipses, TextIPTwoGroups, TextEmpty }

LengthHalfPool ==
    { TextLen0, TextLen24, TextLen127, TextLen128,
      TextEmpty, TextLenLetter, TextLenMinus1, TextLenMinus256,
      TextLen129, TextLen256, TextLen384 }

OddTextPool == {TextIP1234, TextTwoSlashes, TextOnlySlashes, TextEmpty}

\* The prefix-lengths of the PrefixedIPs that are printed.
StringPrefixLengthPool == {0, 1, 90, 96, 120, 127, 128}

\* The IPs made so far.
MadeIPs ==
    {m.ip : m \in {n \in {madeIPv4, madeIPv6} : n.made}}

\* ip := NewIPv4IP(addr)
CallNewIPv4IP(addr) ==
    /\ call = NoCall
    /\ madeIPv4' = [made |-> TRUE, ip |-> NewIPv4IP(addr), from |-> <<>>]
    /\ UNCHANGED <<trie, added, lastHas, texts, madeIPv6, call,
                   raceVars, httpVars>>

\* CallParseIP after ParseIP has returned r: the IP counts as made from an
\* IPv6 address if the text is in colon notation.
CallParseIPResult(text, r) ==
    /\ r.err = nilError
    /\ IF \E i \in 1..Len(text) : text[i] = ":"
       THEN /\ madeIPv6' = [made |-> TRUE, ip |-> r.ip, from |-> text]
            /\ UNCHANGED madeIPv4
       ELSE /\ madeIPv4' = [made |-> TRUE, ip |-> r.ip, from |-> text]
            /\ UNCHANGED madeIPv6

\* ip, err := ParseIP(text)
CallParseIP(text) ==
    /\ call = NoCall
    /\ CallParseIPResult(text, ParseIP(text))
    /\ UNCHANGED <<trie, added, lastHas, texts, call, raceVars, httpVars>>

\* CallNewPrefixedIP after NewPrefixedIP has returned r.
CallNewPrefixedIPResult(ip, pl, r) ==
    call' = [op |-> "NewPrefixedIP", ip |-> ip, pl |-> pl,
             pip |-> r.pip, err |-> r.err]

\* pip, err := NewPrefixedIP(ip, pl)
CallNewPrefixedIP(ip, pl) ==
    /\ call = NoCall
    /\ CallNewPrefixedIPResult(ip, pl, NewPrefixedIP(ip, pl))
    /\ UNCHANGED <<trie, added, lastHas, texts, madeIPv4, madeIPv6,
                   raceVars, httpVars>>

\* CallParsePrefixedIP after ParsePrefixedIP has returned r.
CallParsePrefixedIPResult(text, r) ==
    call' = [op |-> "ParsePrefixedIP", text |-> text,
             pip |-> r.pip, err |-> r.err]

\* pip, err := ParsePrefixedIP(text)
CallParsePrefixedIP(text) ==
    /\ call = NoCall
    /\ CallParsePrefixedIPResult(text, ParsePrefixedIP(text))
    /\ UNCHANGED <<trie, added, lastHas, texts, madeIPv4, madeIPv6,
                   raceVars, httpVars>>

\* CallString after PrefixedIP.String has returned str.
CallStringResult(pip, str) ==
    call' = [op |-> "String", pip |-> pip, str |-> str,
             back |-> ParsePrefixedIP(str)]

\* str := pip.String(); back, err := ParsePrefixedIP(str)
CallString(pip) ==
    /\ call = NoCall
    /\ CallStringResult(pip, PrefixedIPString(pip))
    /\ UNCHANGED <<trie, added, lastHas, texts, madeIPv4, madeIPv6,
                   raceVars, httpVars>>

\* The PrefixedIP of ip and pl, with ip as given or already masked.
PrefixedIPOf(ip, pl, masked) ==
    IF masked
    THEN [ip |-> IP([ip |-> ip, prefixLength |-> pl]), prefixLength |-> pl]
    ELSE [ip |-> ip, prefixLength |-> pl]

NextIP ==
    \/ \E addr \in IPv4Pool : CallNewIPv4IP(addr)
    \/ \E text \in IPv4TextPool \cup IPv6TextPool : CallParseIP(text)
    \/ \E ip \in MadeIPs, pl \in 0..255 : CallNewPrefixedIP(ip, pl)
    \/ \E a \in AddressHalfPool, l \in LengthHalfPool :
          CallParsePrefixedIP(a \o <<"/">> \o l)
    \/ \E text \in OddTextPool : CallParsePrefixedIP(text)
    \/ \E ip \in MadeIPs, pl \in StringPrefixLengthPool, masked \in BOOLEAN :
          CallString(PrefixedIPOf(ip, pl, masked))

SpecIP == Init /\ [][NextIP]_vars

\* ---------------------------------------------------------------------
\* Claims about the IP and PrefixedIP types
\* ---------------------------------------------------------------------

\* The texts of the IPv6 addresses of ::ffff:0:0/96, the IPv4-mapped block.
MappedTexts == {TextIPMapped1234Hex, TextIPMapped1234Dotted}

\* C11 (as stated): the IP made from an IPv4 address is never equal to the
\* IP made from an IPv6 address.
FamiliesNeverEqualAsStated ==
    (madeIPv4.made /\ madeIPv6.made) => madeIPv4.ip # madeIPv6.ip

\* C11 (amended): the IP made from an IPv4 address is never equal to the IP
\* made from an IPv6 address outside ::ffff:0:0/96, whatever the trailing
\* bytes; the IP of the IPv4-mapped address ::ffff:a.b.c.d is the IP of the
\* IPv4 address a.b.c.d.
FamiliesNeverEqual ==
    (madeIPv4.made /\ madeIPv6.made) =>
        IF madeIPv6.from \in MappedTexts
        THEN madeIPv6.ip = NewIPv4IP(IPv4(1, 2, 3, 4))
        ELSE madeIPv4.ip # madeIPv6.ip

\* C11 witness: 1.2.3.4 and the IPv6 address ::102:304, which has the same
\* trailing bytes, have both been made.
FamiliesNeverEqualWitness ==
    /\ madeIPv4.made
    /\ madeIPv4.ip = NewIPv4IP(IPv4(1, 2, 3, 4))
    /\ madeIPv6.made
    /\ madeIPv6.from = TextIPCompat1234
    /\ \A i \in 12..15 : madeIPv4.ip[i] = madeIPv6.ip[i]

\* C12: for every IP and every prefix-length p in 0..128, IP() of
\* NewPrefixedIP(ip, p) has every bit at position >= p equal to 0 and every
\* bit at position < p equal to the bit of ip, and PrefixLength() is p.
MaskingInvariant ==
    (call.op = "NewPrefixedIP" /\ call.pl <= ipLength) =>
        /\ call.err = nilError
        /\ LET masked == IP(call.pip)
           IN  \A i \in 0..(ipLength - 1) :
                  bitAtIndex(masked, i) =
                      IF i < call.pl THEN bitAtIndex(call.ip, i) ELSE 0
        /\ PrefixLength(call.pip) = call.pl

\* C12 witness: a PrefixedIP whose IP has bits set on both sides of the
\* prefix-length and a set bit at the prefix-length itself.
MaskingInvariantWitness ==
    /\ call.op = "NewPrefixedIP"
    /\ call.pl = 27
    /\ bitAtIndex(call.ip, 27) = 1
    /\ \E i \in 0..26 : bitAtIndex(call.ip, i) = 1
    /\ \E i \in 28..127 : bitAtIndex(call.ip, i) = 1
    /\ IP(call.pip) # call.ip

\* C13: NewPrefixedIP(ip, p) fails with ErrBadPrefixLength and returns no
\* PrefixedIP for every p in 129..255, and succeeds for every p in 0..128.
PrefixLengthRange ==
    call.op = "NewPrefixedIP" =>
        IF call.pl > 128
        THEN call.err = ErrBadPrefixLength /\ call.pip = nilPrefixedIP
        ELSE call.err = nilError /\ call.pip # nilPrefixedIP

\* C13 witness: the call with the greatest prefix-length that is accepted.
PrefixLengthRangeWitness ==
    call.op = "NewPrefixedIP" /\ call.pl = 128 /\ call.err = nilError

\* The number of separators in a text.
SlashCount(text) == Cardinality({i \in 1..Len(text) : text[i] = "/"})

\* The texts with one separator whose address half is among as and whose
\* length half is among ls.
Joined(as, ls) == {a \o <<"/">> \o l : a \in as, l \in ls}

\* The address halves that are addresses, and those that are not.
GoodAddressHalves == {TextIP1234, TextV6Zero, TextV6One}
BadAddressHalves ==
    {TextIPBadOctet, TextIPTwoEllipses, TextIPTwoGroups, TextEmpty}

\* The length halves that are absent, non-numeric, negative or greater than
\* 128.
BadLengthHalves ==
    { TextEmpty, TextLenLetter, TextLenMinus1, TextLenMinus256,
      TextLen129, TextLen256, TextLen384 }

\* C14: ParsePrefixedIP classifies malformed text by shape. A number of
\* separators other than one gives ErrBadPrefixedIP; with one separator an
\* unparsable address half gives ErrBadIP, and, the address half being an
\* address, a length half that is absent, non-numeric, negative or greater
\* than 128 gives ErrBadPrefixLength; no PrefixedIP is returned with an error.
ErrorClassification ==
    call.op = "ParsePrefixedIP" =>
        /\ SlashCount(call.text) # 1 => call.err = ErrBadPrefixedIP
        /\ call.text \in Joined(BadAddressHalves, LengthHalfPool) =>
              call.err = ErrBadIP
        /\ call.text \in Joined(GoodAddressHalves, BadLengthHalves) =>
              call.err = ErrBadPrefixLength
        /\ call.err # nilError => call.pip = nilPrefixedIP

\* C14 witness: "1.2.3.4/384", whose length is 128 once cast to a byte, has
\* been refused.
ErrorClassificationWitness ==
    /\ call.op = "ParsePrefixedIP"
    /\ call.text = TextIP1234 \o <<"/">> \o TextLen384
    /\ call.err = ErrBadPrefixLength

\* C15: for every canonical (masked) PrefixedIP r, ParsePrefixedIP(r.String())
\* succeeds and gives a PrefixedIP with the IP() and the PrefixLength() of r.
RoundTrip ==
    (call.op = "String" /\ call.pip.ip = IP(call.pip)) =>
        /\ call.back.err = nilError
        /\ call.back.pip # nilPrefixedIP
        /\ IP(call.back.pip) = IP(call.pip)
        /\ PrefixLength(call.back.pip) = PrefixLength(call.pip)

\* C15 witness: the canonical 1.2.3.0/120, printed in dotted notation, has
\* been parsed back.
RoundTripWitness ==
    /\ call.op = "String"
    /\ call.pip.ip = NewIPv4IP(IPv4(1, 2, 3, 0))
    /\ call.pip.prefixLength = 120
    /\ call.str = <<"1", ".", "2", ".", "3", ".", "0", "/", "1", "2", "0">>

\* ---------------------------------------------------------------------
\* Specification: trie.Add and trie.Has run by concurrent goroutines, as
\* concurrently running ServeHTTP calls run them on the trie of the Handler.
\* The trie has no lock: every read and every write of a field of a node is
\* a step of its own.
\* ---------------------------------------------------------------------

\* Number of goroutines that run trie.Add at the same time.
MaxAdders == 2

\* IPs that start with the bits 10, 11 and 01.
IPBits10 == [ZeroIP EXCEPT ![0] = 128]
IPBits11 == [ZeroIP EXCEPT ![0] = 192]
IPBits01 == [ZeroIP EXCEPT ![0] = 64]

\* The PrefixedIPs that are in the trie before the goroutines start.
StoredPool ==
    { <<>>,
      <<[ip |-> LoopbackIP, prefixLength |-> 128]>>,
      <<[ip |-> IPBits10, prefixLength |-> 1]>> }

\* The PrefixedIPs the goroutines add.
RacePrefixedIPPool ==
    { [ip |-> IPBits10, prefixLength |-> 1],
      [ip |-> IPBits10, prefixLength |-> 2],
      [ip |-> IPBits11, prefixLength |-> 2],
      [ip |-> ZeroIP, prefixLength |-> 0] }

\* The IPs the goroutines look up.
RaceQueryPool == {IPBits10, IPBits11, IPBits01, LoopbackIP}

\* The trie as it was before the goroutines started: the PrefixedIPs of
\* added, added one after the other.
BaseTrie == AddAll(added, [i \in 1..Len(added) |-> i])

\* The node at index n as it was before the goroutines started; a node that
\* was allocated since was the zero node.
BaseNode(base, n) == IF n <= Len(base.heap) THEN base.heap[n] ELSE node

\* The values a read of the field IsEnd of node n can return while a
\* goroutine writes the trie without synchronisation: the value in memory,
\* or the value the field had before.
ReadIsEnd(base, n) == {trie.heap[n].IsEnd, BaseNode(base, n).IsEnd}

\* The values a read of the field Children[child] of node n can return.
ReadChild(base, n, child) ==
    {trie.heap[n].Children[child], BaseNode(base, n).Children[child]}

InitRace ==
    /\ added \in StoredPool
    /\ trie = AddAll(added, [i \in 1..Len(added) |-> i])
    /\ lastHas = NoQuery
    /\ texts = <<>>
    /\ madeIPv4 = NoIP
    /\ madeIPv6 = NoIP
    /\ call = NoCall
    /\ adders = NoAdders
    /\ reader = NoReader
    /\ store = NoStore
    /\ response = NoResponse

\* A goroutine calls m.Add(pip): lines 103 to 106 of trie.Add, which read
\* nothing that another goroutine writes.
StartAdd(pip, max) ==
    /\ Len(adders) < max
    /\ adders' = Append(adders,
                        [pip |-> pip, ip |-> IP(pip),
                         pl |-> PrefixLength(pip), i |-> 0,
                         current |-> trie.root,
                         pc |-> IF PrefixLength(pip) = 0
                                THEN "mark" ELSE "test"])
    /\ UNCHANGED <<trie, added, lastHas, texts, ipVars, reader, httpVars>>

\* The child the goroutine g of trie.Add is at.
ChildOf(g) == bitAtIndex(adders[g].ip, adders[g].i)

\* if current.Children[child] == nil
AddTest(g) ==
    /\ adders[g].pc = "test"
    /\ adders' = [adders EXCEPT ![g].pc =
                    IF trie.heap[adders[g].current].Children[ChildOf(g)] = nil
                    THEN "alloc" ELSE "descend"]
    /\ UNCHANGED <<trie, added, lastHas, texts, ipVars, reader, httpVars>>

\* AllocChild as it would be if the node were linked with IsEnd still set
\* from an earlier use of its memory.
AllocChildMarked(heap, current, child) ==
    Append([heap EXCEPT ![current].Children[child] = Len(heap) + 1],
           [node EXCEPT !.IsEnd = TRUE])

\* current.Children[child] = &node{}: the node is zero when it is linked.
AllocChild(heap, current, child) ==
    Append([heap EXCEPT ![current].Children[child] = Len(heap) + 1], node)

\* current.Children[child] = &node{}
AddAlloc(g) ==
    /\ adders[g].pc = "alloc"
    /\ trie' = [trie EXCEPT
                  !.heap = AllocChild(@, adders[g].current, ChildOf(g))]
    /\ adders' = [adders EXCEPT ![g].pc = "descend"]
    /\ UNCHANGED <<added, lastHas, texts, ipVars, reader, httpVars>>

\* current = current.Children[child]
AddDescend(g) ==
    /\ adders[g].pc = "descend"
    /\ adders' = [adders EXCEPT
                    ![g].current =
                        trie.heap[adders[g].current].Children[ChildOf(g)],
                    ![g].pc = "check"]
    /\ UNCHANGED <<trie, added, lastHas, texts, ipVars, reader, httpVars>>

\* AddCheck as it would be if the test of the loop were i <= pl.
AddCheckInclusive(g) ==
    /\ adders[g].pc = "check"
    /\ adders' = [adders EXCEPT
                    ![g].i = IF trie.heap[adders[g].current].IsEnd
                             THEN @ ELSE @ + 1,
                    ![g].pc = IF trie.heap[adders[g].current].IsEnd
                              THEN "done"
                              ELSE IF adders[g].i + 1 <= adders[g].pl
                              THEN "test" ELSE "mark"]
    /\ UNCHANGED <<trie, added, lastHas, texts, ipVars, reader, httpVars>>

\* if current.IsEnd { return }, then i++ and the test i < pl
AddCheck(g) ==
    /\ adders[g].pc = "check"
    /\ adders' = [adders EXCEPT
                    ![g].i = IF trie.heap[adders[g].current].IsEnd
                             THEN @ ELSE @ + 1,
                    ![g].pc = IF trie.heap[adders[g].current].IsEnd
                              THEN "done"
                              ELSE IF adders[g].i + 1 < adders[g].pl
                              THEN "test" ELSE "mark"]
    /\ UNCHANGED <<trie, added, lastHas, texts, ipVars, reader, httpVars>>

\* current.IsEnd = true
AddMark(g) ==
    /\ adders[g].pc = "mark"
    /\ trie' = [trie EXCEPT !.heap[adders[g].current].IsEnd = TRUE]
    /\ adders' = [adders EXCEPT ![g].pc = "done"]
    /\ UNCHANGED <<added, lastHas, texts, ipVars, reader, httpVars>>

\* A goroutine calls m.Has(ip): line 121 of trie.Has.
StartHas(ip) ==
    /\ reader.pc = "idle"
    /\ reader' = [pc |-> "testEnd", ip |-> ip, i |-> 0,
                  current |-> trie.root, res |-> FALSE]
    /\ UNCHANGED <<trie, added, lastHas, texts, ipVars, adders, httpVars>>

\* HasTestEnd after the read of current.IsEnd has returned isEnd.
HasTestEndRead(isEnd) ==
    reader' = IF isEnd
              THEN [reader EXCEPT !.pc = "done", !.res = TRUE]
              ELSE [reader EXCEPT !.pc = "descend"]

\* if current.IsEnd { return true }
HasTestEnd ==
    /\ reader.pc = "testEnd"
    /\ \E isEnd \in ReadIsEnd(BaseTrie, reader.current) :
          HasTestEndRead(isEnd)
    /\ UNCHANGED <<trie, added, lastHas, texts, ipVars, adders, httpVars>>

\* HasDescend after the read of current.Children[child] has returned next.
HasDescendRead(next) ==
    reader' = IF next = nil
              THEN [reader EXCEPT !.current = nil, !.pc = "done",
                                  !.res = FALSE]
              ELSE [reader EXCEPT !.current = next, !.i = @ + 1,
                                  !.pc = IF reader.i + 1 < ipLength
                                         THEN "testEnd" ELSE "final"]

\* current = current.Children[child]; if current == nil { break }, then i++
\* and the test i < ipLength; after the break, return false
HasDescend ==
    /\ reader.pc = "descend"
    /\ \E next \in ReadChild(BaseTrie, reader.current,
                             bitAtIndex(reader.ip, reader.i)) :
          HasDescendRead(next)
    /\ UNCHANGED <<trie, added, lastHas, texts, ipVars, adders, httpVars>>

\* return current != nil && current.IsEnd, after the last iteration
HasFinal ==
    /\ reader.pc = "final"
    /\ \E isEnd \in ReadIsEnd(BaseTrie, reader.current) :
          reader' = [reader EXCEPT !.pc = "done", !.res = isEnd]
    /\ UNCHANGED <<trie, added, lastHas, texts, ipVars, adders, httpVars>>

\* Goroutines that run trie.Add at the same time.
NextAddAdd ==
    \/ \E pip \in RacePrefixedIPPool : StartAdd(pip, MaxAdders)
    \/ \E g \in DOMAIN adders : AddTest(g)
    \/ \E g \in DOMAIN adders : AddAlloc(g)
    \/ \E g \in DOMAIN adders : AddDescend(g)
    \/ \E g \in DOMAIN adders : AddCheck(g)
    \/ \E g \in DOMAIN adders : AddMark(g)

SpecAddAdd == InitRace /\ [][NextAddAdd]_vars

\* One goroutine that runs trie.Add while another runs trie.Has.
NextAddHas ==
    \/ \E pip \in RacePrefixedIPPool : StartAdd(pip, 1)
    \/ \E g \in DOMAIN adders : AddTest(g)
    \/ \E g \in DOMAIN adders : AddAlloc(g)
    \/ \E g \in DOMAIN adders : AddDescend(g)
    \/ \E g \in DOMAIN adders : AddCheck(g)
    \/ \E g \in DOMAIN adders : AddMark(g)
    \/ \E ip \in RaceQueryPool : StartHas(ip)
    \/ HasTestEnd
    \/ HasDescend
    \/ HasFinal

SpecAddHas == InitRace /\ [][NextAddHas]_vars

\* ---------------------------------------------------------------------
\* Claims about concurrent goroutines
\* ---------------------------------------------------------------------

\* Every goroutine that runs trie.Add has returned.
AddersDone == \A g \in DOMAIN adders : adders[g].pc = "done"

\* C16: for any interleaving of two Add calls made by concurrently running
\* ServeHTTP calls, after both have returned Has is true for every address
\* covered by either added range: no update is lost.
NoLostUpdate ==
    (Len(adders) = 2 /\ AddersDone) =>
        \A g \in DOMAIN adders : \A a \in RaceQueryPool :
            Covers(adders[g].pip, a) => Has(trie, a)

IndexByte(s, c) ==
    IF \E i \in 1..Len(s) : s[i] = c
    THEN (CHOOSE i \in 1..Len(s) : s[i] = c /\ \A j \in 1..(i - 1) : s[j] # c)
         - 1
    ELSE 0 - 1

LastIndexByte(s, c) ==
    IF \E i \in 1..Len(s) : s[i] = c
    THEN (CHOOSE i \in 1..Len(s) :
              s[i] = c /\ \A j \in (i + 1)..Len(s) : s[j] # c) - 1
    ELSE 0 - 1

\* hostport[a:b]
Slice(s, a, b) == SubSeq(s, a + 1, b)

\* The error of net.SplitHostPort; ServeHTTP does not look at its text.
AddrError == [host |-> <<>>, err |-> "address error"]

\* SplitHostPort once the host is known: j and k are where the searches for
\* a stray '[' and a stray ']' start.
splitHostPortBrackets(hostport, host, j, k) ==
    IF IndexByte(Drop(hostport, j), "[") >= 0 THEN AddrError
    ELSE IF IndexByte(Drop(hostport, k), "]") >= 0 THEN AddrError
    ELSE [host |-> host, err |-> nilError]

\* SplitHostPort for a host in brackets: i is the index of the last colon and
\* end the index of the first ']'.
splitHostPortBracketed(hostport, i, end) ==
    IF end < 0 THEN AddrError
    ELSE IF end + 1 # i THEN AddrError
    ELSE splitHostPortBrackets(hostport, Slice(hostport, 1, end), 1, end + 1)

\* SplitHostPort once the last colon is known to be at index i.
splitHostPortAt(hostport, i) ==
    IF i < 0 THEN AddrError
    ELSE IF hostport[1] = "["
    THEN splitHostPortBracketed(hostport, i, IndexByte(hostport, "]"))
    ELSE IF IndexByte(Slice(hostport, 0, i), ":") >= 0 THEN AddrError
    ELSE splitHostPortBrackets(hostport, Slice(hostport, 0, i), 0, 0)

\* net.SplitHostPort: the host of "host:port" or "[host]:port".
SplitHostPort(hostport) ==
    splitHostPortAt(hostport, LastIndexByte(hostport, ":"))

\* ---------------------------------------------------------------------
\* Handler
\* ---------------------------------------------------------------------

\* http.StatusOK, http.StatusForbidden, http.StatusInternalServerError
StatusOK == 200
StatusForbidden == 403
StatusInternalServerError == 500

\* IPBan, NoBan and Ban{PrefixLength: pl}
IPBan == [PrefixLength |-> 0, shouldntBan |-> FALSE, shouldBanIP |-> TRUE]
NoBan == [PrefixLength |-> 0, shouldntBan |-> TRUE, shouldBanIP |-> FALSE]
Ban(pl) == [PrefixLength |-> pl, shouldntBan |-> FALSE, shouldBanIP |-> FALSE]

\* parseRemoteAddress after net.SplitHostPort has returned r.
parseRemoteAddressHost(r) ==
    IF r.err # nilError THEN [ip |-> ZeroIP, err |-> ErrBadIP]
    ELSE ParseIP(r.host)

\* parseRemoteAddress: the IP of the remote-address of an http.Request.
parseRemoteAddress(addr) == parseRemoteAddressHost(SplitHostPort(addr))

\* "1.2.3.4:"
Remote1234 ==
    <<"1", ".", "2", ".", "3", ".", "4", ":">>

\* "1.2.3.5:"
Remote1235 ==
    <<"1", ".", "2", ".", "3", ".", "5", ":">>

\* "[::1]:"
RemoteV6One ==
    <<"[", ":", ":", "1", "]", ":">>

\* "[::2]:"
RemoteV6Two ==
    <<"[", ":", ":", "2", "]", ":">>

\* ":"
RemoteEmptyHost ==
    <<":">>

\* "1.2.3.4"
RemoteNoPort ==
    <<"1", ".", "2", ".", "3", ".", "4">>

\* " is banned"
TextIsBanned ==
    <<" ", "i", "s", " ", "b", "a", "n", "n", "e", "d">>

\* " is banned" after the string form of the IP.
BannedBody(ip) == IPString(ip) \o TextIsBanned

\* The text of an error.
ErrorBody == <<"b", "a", "d", " ", "I", "P">>

\* The test ban != NoBan as it would be if every Ban banned.
ShouldBanAlways(ban) == TRUE

\* ban != NoBan
ShouldBan(ban) == ban # NoBan

\* The choice of pl as it would be if every Ban banned only the IP of the
\* request.
BanPrefixLengthIPOnly(ban) == ipLength

\* pl = ipLength if ban.shouldBanIP, ban.PrefixLength otherwise
BanPrefixLength(ban) ==
    IF ban.shouldBanIP THEN ipLength ELSE ban.PrefixLength

\* The Banner was not called.
NotAsked == [asked |-> FALSE]

\* What ServeHTTP wrote to the http.ResponseWriter, with what it did on the
\* way: queried counts the calls of h.ips.Has, answer is what the Banner
\* returned, passed counts the calls of the wrapped http.Handler and errors
\* the calls of the ErrorHandler.
Served(status, body, ip, parsed, queried, answer, passed, errors) ==
    [served |-> response.served + 1, status |-> status, body |-> body,
     ip |-> ip, parsed |-> parsed, queried |-> queried, answer |-> answer,
     passed |-> passed, errors |-> errors]

\* store.Add as it would be if the file were opened with os.O_TRUNC in
\* place of os.O_APPEND.
storeAddTruncates(pip, writable) ==
    IF writable
    THEN [store EXCEPT !.exists = TRUE, !.lines = <<PrefixedIPString(pip)>>]
    ELSE store

\* store.Add: the line of pip is appended to the file, unless the file
\* cannot be opened.
storeAdd(pip, writable) ==
    IF writable
    THEN [store EXCEPT !.exists = TRUE,
                       !.lines = Append(@, PrefixedIPString(pip))]
    ELSE store

\* ServeBan as it would be if the PrefixedIP were added to the trie only
\* after its record has been written.
ServeBanWrittenFirst(ip, ban, r, writable) ==
    IF r.err # nilError
    THEN /\ response' = Served(StatusForbidden, BannedBody(ip), ip, TRUE, 1,
                               ban, 0, 1)
         /\ UNCHANGED <<trie, added, store>>
    ELSE /\ trie' = IF store.open /\ ~writable THEN trie ELSE Add(trie, r.pip)
         /\ added' = Append(added, r.pip)
         /\ store' = IF store.open THEN storeAdd(r.pip, writable) ELSE store
         /\ response' = Served(StatusForbidden, BannedBody(ip), ip, TRUE, 1,
                               ban, 0,
                               IF store.open /\ ~writable THEN 1 ELSE 0)

\* ServeBan as it would be without the call of h.ips.Add.
ServeBanNotAdded(ip, ban, r, writable) ==
    IF r.err # nilError
    THEN /\ response' = Served(StatusForbidden, BannedBody(ip), ip, TRUE, 1,
                               ban, 0, 1)
         /\ UNCHANGED <<trie, added, store>>
    ELSE /\ trie' = trie
         /\ added' = Append(added, r.pip)
         /\ store' = IF store.open THEN storeAdd(r.pip, writable) ELSE store
         /\ response' = Served(StatusForbidden, BannedBody(ip), ip, TRUE, 1,
                               ban, 0,
                               IF store.open /\ ~writable THEN 1 ELSE 0)

\* ServeBan as it would be if a request whose Ban has a bad prefix-length
\* were passed to the wrapped http.Handler.
ServeBanErrorPasses(ip, ban, r, writable) ==
    IF r.err # nilError
    THEN /\ response' = Served(StatusOK, <<>>, ip, TRUE, 1, ban, 1, 1)
         /\ UNCHANGED <<trie, added, store>>
    ELSE /\ trie' = Add(trie, r.pip)
         /\ added' = Append(added, r.pip)
         /\ store' = IF store.open THEN storeAdd(r.pip, writable) ELSE store
         /\ response' = Served(StatusForbidden, BannedBody(ip), ip, TRUE, 1,
                               ban, 0,
                               IF store.open /\ ~writable THEN 1 ELSE 0)

\* ServeHTTP from the call of NewPrefixedIP, which returned r, to its return.
ServeBan(ip, ban, r, writable) ==
    IF r.err # nilError
    THEN /\ response' = Served(StatusForbidden, BannedBody(ip), ip, TRUE, 1,
                               ban, 0, 1)
         /\ UNCHANGED <<trie, added, store>>
    ELSE /\ trie' = Add(trie, r.pip)
         /\ added' = Append(added, r.pip)
         /\ store' = IF store.open THEN storeAdd(r.pip, writable) ELSE store
         /\ response' = Served(StatusForbidden, BannedBody(ip), ip, TRUE, 1,
                               ban, 0,
                               IF store.open /\ ~writable THEN 1 ELSE 0)

\* ServeChecked as it would be if the Banner were asked before the trie.
ServeCheckedBannerFirst(ip, has, ban, writable) ==
    IF ShouldBan(ban)
    THEN ServeBan(ip, ban, NewPrefixedIP(ip, BanPrefixLength(ban)),
                  writable)
    ELSE IF has
    THEN /\ response' = Served(StatusForbidden, BannedBody(ip), ip, TRUE, 1,
                               ban, 0, 0)
         /\ UNCHANGED <<trie, added, store>>
    ELSE /\ response' = Served(StatusOK, <<>>, ip, TRUE, 1, ban, 1, 0)
         /\ UNCHANGED <<trie, added, store>>

\* ServeHTTP from the return of h.ips.Has, which returned has, to its own
\* return; ban is what the Banner returns if it is called.
ServeChecked(ip, has, ban, writable) ==
    IF has
    THEN /\ response' = Served(StatusForbidden, BannedBody(ip), ip, TRUE, 1,
                               NotAsked, 0, 0)
         /\ UNCHANGED <<trie, added, store>>
    ELSE IF ShouldBan(ban)
    THEN ServeBan(ip, ban, NewPrefixedIP(ip, BanPrefixLength(ban)),
                  writable)
    ELSE /\ response' = Served(StatusOK, <<>>, ip, TRUE, 1, ban, 1, 0)
         /\ UNCHANGED <<trie, added, store>>

\* ServeParsed as it would be if the error of parseRemoteAddress were
\* dropped and the zero IP it returns were served.
ServeParsedErrorDropped(r, ban, writable) ==
    ServeChecked(r.ip, Has(trie, r.ip), ban, writable)

\* ServeHTTP from the return of parseRemoteAddress, which returned r.
ServeParsed(r, ban, writable) ==
    IF r.err # nilError
    THEN /\ response' = Served(StatusInternalServerError, ErrorBody, ZeroIP,
                               FALSE, 0, NotAsked, 0, 1)
         /\ UNCHANGED <<trie, added, store>>
    ELSE ServeChecked(r.ip, Has(trie, r.ip), ban, writable)

\* Number of http.Requests served by one Handler.
MaxRequests == 2

\* Handler.ServeHTTP for a request from remoteAddr. ban is what the Banner
\* returns for the request, writable whether the file of the store can be
\* opened (which only matters to a Handler that has a store). call holds the
\* remote-address of the request.
ServeHTTP(remoteAddr, ban, writable) ==
    /\ response.served < MaxRequests
    /\ store.open \/ writable
    /\ ServeParsed(parseRemoteAddress(remoteAddr), ban, writable)
    /\ call' = [op |-> "ServeHTTP", remoteAddr |-> remoteAddr]
    /\ UNCHANGED <<lastHas, texts, madeIPv4, madeIPv6, raceVars>>

\* The remote-addresses of the requests.
RemoteAddrPool ==
    { Remote1234, Remote1235, RemoteV6One, RemoteV6Two,
      RemoteEmptyHost, RemoteNoPort }

\* What the Banner may return.
BanPool == {NoBan, IPBan, Ban(126), Ban(127), Ban(0), Ban(129), Ban(200)}

\* The store of a Handler whose Config names a StorePath.
EmptyStore == [open |-> TRUE, exists |-> FALSE, lines |-> <<>>]

\* New: the trie is empty; the Handler has a store or none.
InitHTTP ==
    /\ trie = newTrie
    /\ added = <<>>
    /\ lastHas = NoQuery
    /\ texts = <<>>
    /\ madeIPv4 = NoIP
    /\ madeIPv6 = NoIP
    /\ call = NoCall
    /\ adders = NoAdders
    /\ reader = NoReader
    /\ store \in {NoStore, EmptyStore}
    /\ response = NoResponse

NextHTTP ==
    \E remoteAddr \in RemoteAddrPool, ban \in BanPool, writable \in BOOLEAN :
        ServeHTTP(remoteAddr, ban, writable)

SpecHTTP == InitHTTP /\ [][NextHTTP]_vars

\* ---------------------------------------------------------------------
\* Claims about the Handler
\* ---------------------------------------------------------------------

\* The step is a ServeHTTP that parsed the remote-address of its request.
ServedParsed == response'.served = response.served + 1 /\ response'.parsed

\* The response says that the IP of the request is banned.
SaysBanned(rsp) ==
    /\ rsp.status = StatusForbidden
    /\ rsp.body = IPString(rsp.ip) \o TextIsBanned

\* Some PrefixedIP added for an earlier Ban covers a.
CoveredByBan(a) == \E k \in 1..Len(added) : Covers(added[k], a)

\* C18: a request whose remote address is already covered by the trie is
\* answered with status 403 and body "<ip> is banned"; the Banner is not
\* consulted, the wrapped http.Handler is not invoked, and the trie and the
\* store are left unchanged.
BannedRequest ==
    [][(ServedParsed /\ Has(trie, response'.ip)) =>
          /\ SaysBanned(response')
          /\ response'.answer = NotAsked
          /\ response'.passed = 0
          /\ trie' = trie
          /\ store' = store]_vars

\* C18 witness: the second request came from an address that the first one
\* got banned, and was refused.
BannedRequestWitness ==
    /\ response.served = 2
    /\ response.parsed
    /\ response.answer = NotAsked
    /\ response.body =
          <<"1", ".", "2", ".", "3", ".", "4">> \o TextIsBanned
    /\ Len(added) = 1

\* C19: a request from an address that is not covered by the trie and for
\* which the Banner returns NoBan is passed to the wrapped http.Handler
\* exactly once (status 200), and the trie and the store are left unchanged.
PassedRequest ==
    [][(ServedParsed /\ ~Has(trie, response'.ip)
            /\ response'.answer = NoBan) =>
          /\ response'.passed = 1
          /\ response'.status = StatusOK
          /\ trie' = trie
          /\ store' = store]_vars

\* C19 witness: a request was passed on by a Handler that has banned another
\* address before.
PassedRequestWitness ==
    /\ response.served = 2
    /\ response.parsed
    /\ response.answer = NoBan
    /\ response.passed = 1
    /\ Len(added) = 1

\* The PrefixedIP a Ban of the Banner stands for, for a request from x.
BannedRange(x, ban) ==
    [ip |-> x,
     prefixLength |-> IF ban = IPBan THEN 128 ELSE ban.PrefixLength]

\* The Bans of the claim: IPBan and Ban{PrefixLength: p} with p <= 128.
RangeBans == {IPBan} \cup {Ban(p) : p \in 0..128}

\* C20: when the Banner returns Ban{PrefixLength: p} (p <= 128) for a request
\* from x, that request is answered 403 "is banned" and the range of the
\* first p bits of x is banned (IPBan as p = 128); every later request from
\* an address in a banned range is answered 403 "is banned" without the
\* Banner being asked, and every later request from an address in no banned
\* range reaches the Banner. This is the claim for requests served one
\* after the other (SpecHTTP); added holds the ranges of the Bans whose
\* requests have been answered.
RangeBan ==
    [][ServedParsed =>
          /\ CoveredByBan(response'.ip) =>
                SaysBanned(response') /\ response'.answer = NotAsked
          /\ ~CoveredByBan(response'.ip) => response'.answer # NotAsked
          /\ response'.answer \in RangeBans =>
                /\ SaysBanned(response')
                /\ added' = Append(added,
                                   BannedRange(response'.ip, response'.answer))
          /\ response'.answer \notin RangeBans => added' = added]_vars

\* The Bans whose PrefixLength is greater than 128 (PrefixLength is a byte).
BadPrefixLengthBans == {Ban(p) : p \in 129..255}

\* C21: when the Banner returns a Ban whose PrefixLength is greater than 128,
\* the ErrorHandler is invoked, the request is answered 403 "<ip> is banned",
\* the wrapped http.Handler is not invoked, and neither the trie nor the
\* store is modified.
BadPrefixLengthBan ==
    [][(ServedParsed /\ response'.answer \in BadPrefixLengthBans) =>
          /\ SaysBanned(response')
          /\ response'.errors = 1
          /\ response'.passed = 0
          /\ trie' = trie
          /\ store' = store]_vars

\* C21 witness: a Handler that has a store has answered a request for which
\* the Banner returned Ban{PrefixLength: 129}.
BadPrefixLengthBanWitness ==
    /\ response.served > 0
    /\ response.answer = Ban(129)
    /\ response.status = StatusForbidden
    /\ store.open

\* The remote-addresses of the requests that cannot be parsed: ":" has an
\* empty host, "1.2.3.4" has no port.
UnparsableRemoteAddrs == {RemoteEmptyHost, RemoteNoPort}

\* C22: a request whose remote address cannot be parsed is answered with
\* status 500 and body "bad IP" and the ErrorHandler is invoked; the trie is
\* not queried or modified, the Banner is not consulted and the wrapped
\* http.Handler is not invoked.
UnparsedRequest ==
    [][(/\ response'.served = response.served + 1
        /\ call'.remoteAddr \in UnparsableRemoteAddrs) =>
          /\ response'.status = StatusInternalServerError
          /\ response'.body = ErrorBody
          /\ response'.errors = 1
          /\ response'.queried = 0
          /\ response'.answer = NotAsked
          /\ response'.passed = 0
          /\ trie' = trie
          /\ store' = store]_vars

\* C22 witness: after a ban was issued, a request without a port has been
\* answered 500.
UnparsedRequestWitness ==
    /\ call # NoCall
    /\ call.remoteAddr = RemoteNoPort
    /\ response.status = StatusInternalServerError
    /\ Len(added) > 0

\* The Banner has returned the empty Ban for a request that was answered.
EmptyBanIssued == \E k \in 1..Len(added) : added[k].prefixLength = 0

\* C25: an empty Ban (the zero value Ban{}) bans every IP: the request for
\* which the Banner returns it is answered 403 "is banned" and every IP is
\* then in the trie; every later request from any address is answered 403
\* "is banned" and reaches neither the Banner nor the wrapped http.Handler.
EmptyBan ==
    [][/\ (ServedParsed /\ response'.answer = Ban(0)) =>
             /\ SaysBanned(response')
             /\ \A a \in QueryPool : Has(trie', a)
             /\ EmptyBanIssued'
       /\ (ServedParsed /\ EmptyBanIssued) =>
             /\ SaysBanned(response')
             /\ response'.answer = NotAsked
             /\ response'.passed = 0]_vars

\* C25 witness: after the empty Ban was returned for a request, a request
\* from another address has been answered 403.
EmptyBanWitness ==
    /\ Len(added) = 1
    /\ added[1].prefixLength = 0
    /\ response.served = 2
    /\ response.parsed
    /\ response.ip # added[1].ip
    /\ response.status = StatusForbidden
    /\ response.answer = NotAsked

\* ---------------------------------------------------------------------
\* Specification: ServeHTTP called by concurrent goroutines, as net/http
\* calls it. A request that is not banned by its Banner is served in one
\* step; a request that is banned goes through trie.Add step by step, next
\* to the other requests, and is answered when trie.Add has returned.
\* ---------------------------------------------------------------------

\* "[8000::]:"
RemoteBits10 ==
    <<"[", "8", "0", "0", "0", ":", ":", "]", ":">>

\* "[c000::]:"
RemoteBits11 ==
    <<"[", "c", "0", "0", "0", ":", ":", "]", ":">>

\* The remote-addresses of the concurrent requests, and what the Banner
\* may return for them.
ConcurrentRemoteAddrPool == {RemoteBits10, RemoteBits11}
ConcurrentBanPool == {NoBan, Ban(2)}

\* ServeHTTP from the call of NewPrefixedIP, which returned r, to the call of
\* h.ips.Add: the goroutine enters trie.Add.
ServeBeginBan(ip, ban, r) ==
    IF r.err # nilError
    THEN /\ response' = Served(StatusForbidden, BannedBody(ip), ip, TRUE, 1,
                               ban, 0, 1)
         /\ UNCHANGED adders
    ELSE /\ Len(adders) < MaxAdders
         /\ adders' = Append(adders,
                             [pip |-> r.pip, ip |-> IP(r.pip),
                              pl |-> PrefixLength(r.pip), i |-> 0,
                              current |-> trie.root, ban |-> ban,
                              pc |-> IF PrefixLength(r.pip) = 0
                                     THEN "mark" ELSE "test"])
         /\ UNCHANGED response

\* ServeHTTP from the return of h.ips.Has, which returned has.
ServeBeginChecked(ip, has, ban) ==
    IF has
    THEN /\ response' = Served(StatusForbidden, BannedBody(ip), ip, TRUE, 1,
                               NotAsked, 0, 0)
         /\ UNCHANGED adders
    ELSE IF ShouldBan(ban)
    THEN ServeBeginBan(ip, ban, NewPrefixedIP(ip, BanPrefixLength(ban)))
    ELSE /\ response' = Served(StatusOK, <<>>, ip, TRUE, 1, ban, 1, 0)
         /\ UNCHANGED adders

\* ServeHTTP from the return of parseRemoteAddress, which returned r.
ServeBeginParsed(r, ban) ==
    IF r.err # nilError
    THEN /\ response' = Served(StatusInternalServerError, ErrorBody, ZeroIP,
                               FALSE, 0, NotAsked, 0, 1)
         /\ UNCHANGED adders
    ELSE ServeBeginChecked(r.ip, Has(trie, r.ip), ban)

\* A goroutine calls ServeHTTP for a request from remoteAddr and runs it to
\* its return, or to the call of h.ips.Add. texts holds the
\* remote-addresses of the requests made so far.
ServeBegin(remoteAddr, ban) ==
    /\ Len(texts) < MaxAdders + 1
    /\ texts' = Append(texts, remoteAddr)
    /\ ServeBeginParsed(parseRemoteAddress(remoteAddr), ban)
    /\ UNCHANGED <<trie, added, lastHas, ipVars, reader, store>>

\* ServeHTTP from the return of h.ips.Add to its own return: the PrefixedIP
\* is written to the store, if there is one, and the ban to the response.
ServeEnd(g, writable) ==
    /\ adders[g].pc = "done"
    /\ store.open \/ writable
    /\ adders' = [adders EXCEPT ![g].pc = "served"]
    /\ added' = Append(added, adders[g].pip)
    /\ store' = IF store.open THEN storeAdd(adders[g].pip, writable)
                ELSE store
    /\ response' = Served(StatusForbidden, BannedBody(adders[g].pip.ip),
                          adders[g].pip.ip, TRUE, 1, adders[g].ban, 0,
                          IF store.open /\ ~writable THEN 1 ELSE 0)
    /\ UNCHANGED <<trie, lastHas, texts, ipVars, reader>>

NextServe ==
    \/ \E remoteAddr \in ConcurrentRemoteAddrPool, ban \in ConcurrentBanPool :
          ServeBegin(remoteAddr, ban)
    \/ \E g \in DOMAIN adders : AddTest(g)
    \/ \E g \in DOMAIN adders : AddAlloc(g)
    \/ \E g \in DOMAIN adders : AddDescend(g)
    \/ \E g \in DOMAIN adders : AddCheck(g)
    \/ \E g \in DOMAIN adders : AddMark(g)
    \/ \E g \in DOMAIN adders, writable \in BOOLEAN : ServeEnd(g, writable)

SpecServe == InitHTTP /\ [][NextServe]_vars

\* A request begins in this step, from a remote-address that has an IP.
BeginsParsed ==
    /\ Len(texts') = Len(texts) + 1
    /\ parseRemoteAddress(texts'[Len(texts')]).err = nilError

\* C20 for requests served by concurrent goroutines (SpecServe): a request
\* that begins after the request of a Ban has been answered, from an address
\* that agrees with that Ban's address on its first p bits, is answered 403
\* "is banned" without the Banner being asked. added holds the ranges of the
\* Bans whose requests have been answered.
LaterRequestBanned ==
    [][(/\ BeginsParsed
        /\ CoveredByBan(parseRemoteAddress(texts'[Len(texts')]).ip)) =>
          /\ response'.served = response.served + 1
          /\ SaysBanned(response')
          /\ response'.answer = NotAsked
          /\ adders' = adders]_vars

\* ---------------------------------------------------------------------
\* store: the file of PrefixedIPs, and New, which loads it
\* ---------------------------------------------------------------------

\* The error of ioutil.ReadFile for a file that exists and cannot be read.
ErrRead == "read error"

\* The bytes of the file: every line ends in a newline.
fileBytes(lines) ==
    For(LAMBDA bs, i : bs \o lines[i + 1] \o <<"\n">>, <<>>, 0, Len(lines))

\* The end of the body of the loop of store.PrefixedIPs as it would be if a
\* line that ParsePrefixedIP rejects were skipped.
storePrefixedIPsParsedSkipsBad(acc, r) ==
    IF r.err # nilError THEN acc
    ELSE [acc EXCEPT !.pips = Append(@, r.pip)]

\* The end of the body of the loop of store.PrefixedIPs as it would be if
\* pips held only the last PrefixedIP parsed.
storePrefixedIPsParsedKeepsLast(acc, r) ==
    IF r.err # nilError THEN [pips |-> <<>>, err |-> r.err]
    ELSE [acc EXCEPT !.pips = <<r.pip>>]

\* The end of the body of the loop of store.PrefixedIPs: ParsePrefixedIP has
\* returned r for the line.
storePrefixedIPsParsed(acc, r) ==
    IF r.err # nilError THEN [pips |-> <<>>, err |-> r.err]
    ELSE [acc EXCEPT !.pips = Append(@, r.pip)]

\* The body of the loop of store.PrefixedIPs for one line; acc.err is set
\* once the function has returned an error.
storePrefixedIPsLine(acc, line) ==
    IF acc.err # nilError THEN acc
    ELSE IF Len(line) = 0 THEN acc
    ELSE storePrefixedIPsParsed(acc, ParsePrefixedIP(line))

\* store.PrefixedIPs once the file has been read and split into lines.
storePrefixedIPsLines(ls) ==
    For(LAMBDA acc, i : storePrefixedIPsLine(acc, ls[i + 1]),
        [pips |-> <<>>, err |-> nilError], 0, Len(ls))

\* store.PrefixedIPs: the PrefixedIPs of the file. readable is whether
\* ioutil.ReadFile can read a file that exists.
storePrefixedIPs(file, readable) ==
    IF ~file.exists THEN [pips |-> <<>>, err |-> nilError]
    ELSE IF ~readable THEN [pips |-> <<>>, err |-> ErrRead]
    ELSE storePrefixedIPsLines(Split(fileBytes(file.lines), "\n"))

\* loadPrefixedIPs after h.store.PrefixedIPs has returned r: the ipMap it
\* leaves in a Handler made with newTrie.
loadPrefixedIPs(r) ==
    IF r.err # nilError THEN newTrie
    ELSE AddAll(r.pips, [i \in 1..Len(r.pips) |-> i])

\* New after h.store.PrefixedIPs has returned r. call holds what was loaded
\* and the number of calls of the ErrorHandler.
NewLoaded(r) ==
    /\ trie' = loadPrefixedIPs(r)
    /\ call' = [op |-> "New", loaded |-> r.pips,
                errors |-> IF r.err # nilError THEN 1 ELSE 0]

\* New for a Config that names the file of store: a new Handler takes the
\* place of the one before. served goes on counting the requests made of
\* the Handlers of this file.
New(readable) ==
    /\ store.open
    /\ NewLoaded(storePrefixedIPs(store, readable))
    /\ response' = [NoResponse EXCEPT !.served = response.served]
    /\ UNCHANGED <<added, lastHas, texts, madeIPv4, madeIPv6, raceVars, store>>

\* "bad"
TextBad ==
    <<"b", "a", "d">>

\* "1.2.3.4/128"
Text1234Slash128 ==
    <<"1", ".", "2", ".", "3", ".", "4", "/", "1", "2", "8">>

\* "::2/127"
TextV6TwoSlash127 ==
    <<":", ":", "2", "/", "1", "2", "7">>

\* The files a store is made on: none, one with the record of
\* TestBanBadStore, one with a record before the bad one, and one of records
\* around an empty line.
StoreFilePool ==
    { EmptyStore,
      [open |-> TRUE, exists |-> TRUE, lines |-> <<TextBad>>],
      [open |-> TRUE, exists |-> TRUE, lines |-> <<Text1234Slash128, TextBad>>],
      [open |-> TRUE, exists |-> TRUE,
       lines |-> <<Text1234Slash128, <<>>, TextV6TwoSlash127>>] }

\* The remote-addresses of the requests made of the Handlers of a store, and
\* what their Banners may return.
StoreRemoteAddrPool == {Remote1234, Remote1235, RemoteV6One}
StoreBanPool == {NoBan, IPBan, Ban(127)}

\* No Handler has been made yet; the file is any of StoreFilePool.
InitStored ==
    /\ trie = newTrie
    /\ added = <<>>
    /\ lastHas = NoQuery
    /\ texts = <<>>
    /\ madeIPv4 = NoIP
    /\ madeIPv6 = NoIP
    /\ call = NoCall
    /\ adders = NoAdders
    /\ reader = NoReader
    /\ store \in StoreFilePool
    /\ response = NoResponse

\* Handlers are made on the file one after the other, and each serves its
\* requests one after the other.
NextStored ==
    \/ \E readable \in BOOLEAN : New(readable)
    \/ \E remoteAddr \in StoreRemoteAddrPool, ban \in StoreBanPool,
          writable \in BOOLEAN :
          call # NoCall /\ ServeHTTP(remoteAddr, ban, writable)

SpecStored == InitStored /\ [][NextStored]_vars

\* ---------------------------------------------------------------------
\* Claims about the store
\* ---------------------------------------------------------------------

\* The step is a call of New.
IsNew == call'.op = "New"

\* The Handler that serves was made by New just before.
AfterNew == call.op = "New"

\* C23 as stated: after a Handler has issued any sequence of valid bans, a
\* new Handler created by New on the same file has every address that any
\* of those bans covered in its trie and answers it 403 "is banned".
RememberedAsStated ==
    [][/\ IsNew => \A a \in QueryPool : CoveredByBan(a) => Has(trie', a)
       /\ (AfterNew /\ ServedParsed /\ CoveredByBan(response'.ip)) =>
             SaysBanned(response')]_vars

\* The record of the k-th ban is in the file.
Written(k) ==
    \E j \in 1..Len(store.lines) : store.lines[j] = PrefixedIPString(added[k])

\* Some ban whose record is in the file covers a.
CoveredByWrittenBan(a) ==
    \E k \in 1..Len(added) : Written(k) /\ Covers(added[k], a)

\* C23 (amended): a new Handler created by New on the same file, when New
\* reports no error, has in its trie every address covered by a ban whose
\* record was written to the file, and answers it 403 "is banned" without
\* asking its Banner.
Remembered ==
    [][/\ (IsNew /\ call'.errors = 0) =>
             \A a \in QueryPool : CoveredByWrittenBan(a) => Has(trie', a)
       /\ (/\ AfterNew
           /\ call.errors = 0
           /\ ServedParsed
           /\ CoveredByWrittenBan(response'.ip)) =>
             SaysBanned(response') /\ response'.answer = NotAsked]_vars

\* C23 witness: two bans were issued and written, and New has loaded them
\* without an error.
RememberedWitness ==
    /\ call.op = "New"
    /\ call.errors = 0
    /\ Len(added) = 2
    /\ \A k \in 1..Len(added) : Written(k)
    /\ Len(call.loaded) >= 2

\* The file holds a record that ParsePrefixedIP rejects.
HasBadRecord == \E j \in 1..Len(store.lines) : store.lines[j] = TextBad

\* C24: if the file holds a record that ParsePrefixedIP rejects when New is
\* called, the ErrorHandler is invoked and no record of the file is loaded;
\* the Banner is then asked about every request, and a request for which it
\* returns NoBan reaches the wrapped http.Handler with status 200.
BadStore ==
    [][/\ (IsNew /\ HasBadRecord) =>
             /\ call'.errors = 1
             /\ call'.loaded = <<>>
             /\ trie' = newTrie
       /\ (AfterNew /\ HasBadRecord /\ ServedParsed) =>
             /\ response'.answer # NotAsked
             /\ response'.answer = NoBan =>
                   /\ response'.status = StatusOK
                   /\ response'.passed = 1]_vars

\* C24 witness: New was called on a file with a well-formed record before
\* the bad one.
BadStoreWitness ==
    /\ call.op = "New"
    /\ call.errors = 1
    /\ Len(store.lines) >= 2
    /\ store.lines[1] = Text1234Slash128
    /\ store.lines[2] = TextBad

\* ---------------------------------------------------------------------
\* Specification: store.Add and store.PrefixedIPs called on one file
\* ---------------------------------------------------------------------

\* Number of calls of store.Add that return nil.
MaxRecords == 2

\* The PrefixedIPs handed to store.Add, built by NewPrefixedIP (masked) and
\* as ParsePrefixedIP builds them (the IP as given).
StorePrefixedIPPool ==
    { PrefixedIPOf(ip, pl, masked) :
         ip \in IPPool, pl \in {0, 96, 120, 128}, masked \in BOOLEAN }

\* store.Add(pip). added holds the PrefixedIPs of the calls that returned
\* nil.
CallStoreAdd(pip, writable) ==
    /\ Len(added) < MaxRecords
    /\ store' = storeAdd(pip, writable)
    /\ added' = IF writable THEN Append(added, pip) ELSE added
    /\ call' = [op |-> "store.Add", pip |-> pip,
                err |-> IF writable THEN nilError ELSE "open error"]
    /\ UNCHANGED <<trie, lastHas, texts, madeIPv4, madeIPv6, raceVars,
                   response>>

\* store.PrefixedIPs() on the file that store.Add made, which this process
\* can read.
CallStorePrefixedIPs ==
    /\ LET r == storePrefixedIPs(store, TRUE)
       IN  call' = [op |-> "store.PrefixedIPs", pips |-> r.pips,
                    err |-> r.err]
    /\ UNCHANGED <<trie, added, lastHas, texts, madeIPv4, madeIPv6,
                   raceVars, httpVars>>

\* The store is made on a path where there is no file.
InitStore ==
    /\ trie = newTrie
    /\ added = <<>>
    /\ lastHas = NoQuery
    /\ texts = <<>>
    /\ madeIPv4 = NoIP
    /\ madeIPv6 = NoIP
    /\ call = NoCall
    /\ adders = NoAdders
    /\ reader = NoReader
    /\ store = EmptyStore
    /\ response = NoResponse

NextStore ==
    \/ \E pip \in StorePrefixedIPPool, writable \in BOOLEAN :
          CallStoreAdd(pip, writable)
    \/ CallStorePrefixedIPs

SpecStore == InitStore /\ [][NextStore]_vars

\* C28: store round-trip: starting from a missing file, after any sequence
\* store.Add(p1), ..., store.Add(pn) that all return nil, store.PrefixedIPs()
\* returns exactly n PrefixedIPs, in insertion order, each with the same IP()
\* and PrefixLength() as the corresponding pi; on a missing file
\* PrefixedIPs() returns an empty result and no error.
StoreRoundTrip ==
    call.op = "store.PrefixedIPs" =>
       /\ call.err = nilError
       /\ Len(call.pips) = Len(added)
       /\ \A k \in 1..Len(added) :
             k <= Len(call.pips) =>
                /\ IP(call.pips[k]) = IP(added[k])
                /\ PrefixLength(call.pips[k]) = PrefixLength(added[k])
       /\ ~store.exists => call.pips = <<>>

\* C28 witness: two different PrefixedIPs were added, the first one with
\* bits set after its prefix, and PrefixedIPs has returned.
StoreRoundTripWitness ==
    /\ call.op = "store.PrefixedIPs"
    /\ Len(added) = 2
    /\ added[1] # added[2]
    /\ added[1].ip # IP(added[1])
    /\ Len(call.pips) = 2

\* ---------------------------------------------------------------------
\* Claims about the size of the trie and the length of its walks
\* ---------------------------------------------------------------------

\* The nodes of m other than the root.
NodeCount(m) == Len(m.heap) - 1

\* The sum of the prefix-lengths of the PrefixedIPs of seq.
SumPrefixLengths(seq) ==
    For(LAMBDA n, i : n + PrefixLength(seq[i + 1]), 0, 0, Len(seq))

\* C26 (space bound): in every reachable trie state the number of nodes
\* other than the root is at most the sum of the prefix-lengths of all
\* PrefixedIPs added so far, and an Add that is absorbed by an existing
\* terminal node adds no node at all.
SpaceBound ==
    [][/\ NodeCount(trie') <= SumPrefixLengths(added')
       /\ \A ip \in IPPool, pl \in PrefixLengthPool :
             (/\ AddPrefixed(ip, pl)
              /\ TerminalOnPath(trie, NewPrefixedIP(ip, pl).pip)) =>
                NodeCount(trie') = NodeCount(trie)]_vars

\* The PrefixedIPs added and the IPs looked up, walk by walk.
WalkPrefixedIPPool ==
    { [ip |-> LoopbackIP, prefixLength |-> 128],
      [ip |-> IPBits10, prefixLength |-> 1],
      [ip |-> ZeroIP, prefixLength |-> 0] }

WalkQueryPool == {LoopbackIP, IPBits10, [ZeroIP EXCEPT ![15] = 2]}

\* One step of a call of trie.Add or trie.Has that is under way.
WalkStep ==
    \/ \E g \in DOMAIN adders : AddTest(g)
    \/ \E g \in DOMAIN adders : AddAlloc(g)
    \/ \E g \in DOMAIN adders : AddDescend(g)
    \/ \E g \in DOMAIN adders : AddCheck(g)
    \/ \E g \in DOMAIN adders : AddMark(g)
    \/ HasTestEnd
    \/ HasDescend
    \/ HasFinal

\* The calls of trie.Add are made one after the other on a stored trie;
\* trie.Has is called on the stored trie.
NextWalk ==
    \/ \E pip \in WalkPrefixedIPPool :
          /\ AddersDone
          /\ reader.pc \in {"idle", "done"}
          /\ StartAdd(pip, MaxAdders)
    \/ \E ip \in WalkQueryPool : adders = <<>> /\ StartHas(ip)
    \/ WalkStep

SpecWalk == InitRace /\ [][NextWalk]_vars

\* The depth of node n on the path ns, which starts at the root; more than
\* ipLength if n is not on the path.
DepthOn(ns, n) ==
    IF \E k \in 1..Len(ns) : ns[k] = n
    THEN (CHOOSE k \in 1..Len(ns) : ns[k] = n) - 1
    ELSE ipLength + 1

\* The IPs of the PrefixedIPs of the walks, masked.
WalkIPs == {LoopbackIP, IPBits10, ZeroIP}

\* The paths of the IPs of the walks in the trie, from the root down to at
\* most 128 levels.
WalkPaths == {<<ip, PathNodes(trie, ip, ipLength)>> : ip \in WalkIPs}

\* The path of ip among paths.
PathOf(paths, ip) == (CHOOSE pr \in paths : pr[1] = ip)[2]

\* The nodes on the paths.
NodesOn(paths) ==
    UNION { {pr[2][k] : k \in 1..Len(pr[2])} : pr \in paths }

\* Every node of the trie is among ns.
AllNodesIn(ns) == \A n \in 1..Len(trie.heap) : n \in ns

\* WalkBound, given the paths of the IPs of the walks.
WalkBoundOn(paths) ==
    /\ \A g \in DOMAIN adders :
          /\ adders[g].pl <= 128
          /\ adders[g].i <= adders[g].pl
          /\ DepthOn(PathOf(paths, adders[g].ip), adders[g].current)
                <= adders[g].pl
    /\ reader.pc # "idle" => reader.i <= 128
    /\ AllNodesIn(NodesOn(paths))

\* Add(r) has descended at most r.PrefixLength() <= 128 levels, Has at most
\* 128, and every node is at most 128 levels below the root.
WalkBound == WalkBoundOn(WalkPaths)

\* The number of steps the call g of trie.Add can still take, at most.
AddStepsLeft(a) ==
    IF a.pc = "done" THEN 0
    ELSE IF a.pc = "mark" THEN 1
    ELSE 5 * (a.pl - a.i) + (CASE a.pc = "test" -> 5
                               [] a.pc = "alloc" -> 4
                               [] a.pc = "descend" -> 3
                               [] a.pc = "check" -> 2)

\* The number of steps the call of trie.Has can still take, at most.
HasStepsLeft(r) ==
    IF r.pc \in {"idle", "done"} THEN 0
    ELSE IF r.pc = "final" THEN 1
    ELSE 3 * (ipLength - r.i) + (IF r.pc = "testEnd" THEN 3 ELSE 2)

\* Every step of a call leaves it fewer steps to take.
WalkShortens ==
    /\ \A g \in DOMAIN adders :
          adders'[g] # adders[g] =>
             /\ AddStepsLeft(adders[g]) <= 5 * adders[g].pl + 5
             /\ AddStepsLeft(adders'[g]) >= 0
             /\ AddStepsLeft(adders'[g]) < AddStepsLeft(adders[g])
    /\ (reader' # reader /\ reader.pc # "idle") =>
          /\ HasStepsLeft(reader) <= 3 * ipLength + 3
          /\ HasStepsLeft(reader') >= 0
          /\ HasStepsLeft(reader') < HasStepsLeft(reader)

\* C27: every trie operation terminates after a bounded walk from the root:
\* Add(r) descends at most r.PrefixLength() (<= 128) levels and Has descends
\* at most 128 levels, however many ranges are stored, and no node ever
\* exists at depth greater than 128. Termination is that every step of a
\* call lowers a bounded count of the steps it has left.
BoundedWalk == []WalkBound /\ [][WalkShortens]_vars

\* C27 witness: a Has has walked the 128 levels of a stored range and an
\* Add of prefix-length 128 has returned.
BoundedWalkWitness ==
    /\ reader.pc = "done"
    /\ reader.i = 128
    /\ Len(adders) > 0
    /\ adders[1].pl = 128
    /\ adders[1].pc = "done"
    /\ NodeCount(trie) >= 128

\* ---------------------------------------------------------------------
\* Claims about the canonical form of a PrefixedIP
\* ---------------------------------------------------------------------

\* a and b agree on their first p bits.
AgreeOn(a, b, p) ==
    \A i \in 0..(p - 1) : bitAtIndex(a, i) = bitAtIndex(b, i)

\* The IPs compared with the IP of a PrefixedIP that is added: the IPs of
\* IPPool and ones that differ from them after 0, 96, 126 and 127 bits.
CanonPool ==
    IPPool \cup
    { ZeroIP, FullIP, [ZeroIP EXCEPT ![15] = 2], [ZeroIP EXCEPT ![15] = 3],
      [ZeroIP EXCEPT ![12] = 128],
      NewIPv4IP(IPv4(1, 2, 3, 5)), NewIPv4IP(IPv4(129, 2, 3, 4)),
      NewIPv4IP(IPv4(1, 2, 255, 255)) }

\* The PrefixedIP of b and p cannot be told from r, on the trie m.
SameAs(m, r, b, p) ==
    LET q == NewPrefixedIP(b, p)
    IN  /\ q.err = nilError
        /\ IP(q.pip) = IP(r)
        /\ PrefixLength(q.pip) = PrefixLength(r)
        /\ PrefixedIPString(q.pip) = PrefixedIPString(r)
        /\ Add(m, q.pip) = Add(m, r)

\* C29: canonical form: for every prefix-length p <= 128 and all IPs a, b
\* that agree on their first p bits, NewPrefixedIP(a, p) and
\* NewPrefixedIP(b, p) are indistinguishable: they have equal IP(), equal
\* PrefixLength(), equal String(), and adding either one to the same trie
\* produces the same trie.
CanonicalForm ==
    [][Len(added') > Len(added) =>
          LET r == Last(added')
          IN  /\ trie' = Add(trie, r)
              /\ \A b \in CanonPool :
                    AgreeOn(r.ip, b, r.prefixLength) =>
                       SameAs(trie, r, b, r.prefixLength)]_vars

\* C29 witness: a PrefixedIP of 96 bits was added to a trie that held
\* another, its IP has bits set after the prefix, and IPs other than its own
\* agree with it on the prefix.
CanonicalFormWitness ==
    /\ Len(added) = 2
    /\ added[1] # added[2]
    /\ added[2].prefixLength = 96
    /\ added[2].ip # IP(added[2])
    /\ \E b \in CanonPool :
          /\ b # added[2].ip
          /\ b # IP(added[2])
          /\ AgreeOn(added[2].ip, b, 96)

\* ---------------------------------------------------------------------
\* ipMap: the trie over net.IPs whose terminal nodes hold the length of the
\* address that was added
\* ---------------------------------------------------------------------

\* ErrPrefixLength
ErrPrefixLength == "invalid prefix-Length for IP"

\* &node{} of ip_map.go: Length 0, both children nil.
ipMapNode == [Length |-> 0, Children |-> [c \in 0..1 |-> nil]]

\* newIPMap: the heap holds the nodes; a *node is an index into it.
newIPMap == [root |-> 1, heap |-> <<ipMapNode>>]

\* byte(len(ip)) * bitsPerByte
ipLen(ip) == (Cardinality(DOMAIN ip) * bitsPerByte) % 256

\* One iteration of the loop of ipMap.Add. w.returned is set once the loop
\* has hit the early return.
ipMapAddStep(ip, w, i) ==
    IF w.returned THEN w
    ELSE LET child == bitAtIndex(ip, i)
             heap1 == IF w.heap[w.current].Children[child] = nil
                      THEN Append(
                              [w.heap EXCEPT ![w.current].Children[child] =
                                  Len(w.heap) + 1],
                              ipMapNode)
                      ELSE w.heap
             next == heap1[w.current].Children[child]
         IN  [heap |-> heap1, current |-> next,
              returned |-> heap1[next].Length # 0]

\* ipMap.Add: the ipMap it leaves and the error it returns.
ipMapAdd(m, ip, prefixLength) ==
    IF prefixLength > ipLen(ip) THEN [m |-> m, err |-> ErrPrefixLength]
    ELSE LET w == For(LAMBDA v, i : ipMapAddStep(ip, v, i),
                      [heap |-> m.heap, current |-> m.root,
                       returned |-> FALSE],
                      0, prefixLength)
         IN  IF w.returned
             THEN [m |-> [m EXCEPT !.heap = w.heap], err |-> nilError]
             ELSE [m |-> [m EXCEPT !.heap =
                            [w.heap EXCEPT ![w.current].Length = ipLen(ip)]],
                   err |-> nilError]

\* One iteration of the loop of ipMap.Has. w.returned is set by the return
\* inside the loop, w.broke by the break.
ipMapHasStep(m, ip, w, i) ==
    IF w.returned \/ w.broke THEN w
    ELSE LET next == m.heap[w.current].Children[bitAtIndex(ip, i)]
         IN  IF next = nil
             THEN [w EXCEPT !.current = next, !.broke = TRUE]
             ELSE [w EXCEPT !.current = next,
                            !.returned = (m.heap[next].Length = ipLen(ip))]

\* ipMap.Has: true if the net.IP matches a net.IP and prefix-length stored.
ipMapHas(m, ip) ==
    LET w == For(LAMBDA v, i : ipMapHasStep(m, ip, v, i),
                 [current |-> m.root, returned |-> FALSE, broke |-> FALSE],
                 0, ipLen(ip))
    IN  w.returned

\* The net.IP that findIPs builds from the Length bits of path: byte j is
\* the or of path[i] << (bitsPerByte - 1 - i%bitsPerByte) for its 8 bits.
pathIP(path, Length) ==
    [j \in 0..((Length \div bitsPerByte) - 1) |->
        For(LAMBDA b, k : b + path[bitsPerByte * j + k + 1]
                                 * 2^(bitsPerByte - 1 - k),
            0, 0, bitsPerByte)]

\* findIPs at a node that marks an address end: path[i] is read for every
\* i < n.Length, which is out of range (a run-time panic) when the node is
\* less than n.Length levels below the root.
findIPsEnd(Length, path, acc) ==
    IF Len(path) < Length
    THEN [acc EXCEPT !.panicked = TRUE]
    ELSE [acc EXCEPT !.out = Append(@, [IP |-> pathIP(path, Length),
                                         PrefixLength |-> Length])]

\* if n.Children[bit] != nil { findIPs(n.Children[bit], append(path, bit), out) }
\* The call is kept as a frame [n, path] of the goroutine's call stack.
findIPsChild(m, c, path, bit) ==
    IF c # nil THEN <<[n |-> c, path |-> Append(path, bit)]>> ELSE <<>>

\* One call of findIPs, the one on top of the call stack w.stack: a node that
\* marks an address end appends its pair and returns, another node calls
\* findIPs for Children[0] and then for Children[1].
findIPsCall(m, w, i) ==
    IF w.acc.panicked \/ w.stack = <<>> THEN w
    ELSE LET n == Head(w.stack).n
             path == Head(w.stack).path
         IN  IF m.heap[n].Length # 0
             THEN [stack |-> Tail(w.stack),
                   acc |-> findIPsEnd(m.heap[n].Length, path, w.acc)]
             ELSE [stack |-> findIPsChild(m, m.heap[n].Children[0], path, 0)
                             \o findIPsChild(m, m.heap[n].Children[1], path, 1)
                             \o Tail(w.stack),
                   acc |-> w.acc]

\* findIPs: the pairs stored under node n, appended to acc.out; acc.panicked
\* is set once the goroutine has panicked. Every node is the subject of at
\* most one call, so Len(m.heap) calls complete the recursion.
findIPs(m, n, path, acc) ==
    For(LAMBDA w, i : findIPsCall(m, w, i),
        [stack |-> <<[n |-> n, path |-> path]>>, acc |-> acc],
        0, Len(m.heap)).acc

\* ipMap.IPs: all net.IP and prefix-length pairs stored in the ipMap.
ipMapIPs(m) == findIPs(m, m.root, <<>>, [out |-> <<>>, panicked |-> FALSE])

\* ---------------------------------------------------------------------
\* Specification: one ipMap, held in trie
\* ---------------------------------------------------------------------

\* The net.IPs handed to ipMap.Add and ipMap.Has: 4-byte and 16-byte
\* addresses, the first 16-byte one with the leading bits of 1.2.3.4.
NetIPPool ==
    { IPv4(1, 2, 3, 4), IPv4(1, 2, 3, 5),
      Bytes(<<1, 2, 3, 4, 0, 0, 0, 0, 0, 0, 0, 0, 0, 0, 0, 0>>),
      LoopbackIP }

\* The prefix-lengths handed to ipMap.Add; 33 is too long for 4 bytes.
NetPrefixLengthPool == {0, 8, 32, 33}

\* m.Add(ip, prefixLength). added holds the pairs of the calls that returned
\* nil.
CallIPMapAdd(ip, prefixLength) ==
    /\ Len(added) < MaxAdds
    /\ LET r == ipMapAdd(trie, ip, prefixLength)
       IN  /\ trie' = r.m
           /\ added' = IF r.err = nilError
                       THEN Append(added,
                                   [ip |-> ip, prefixLength |-> prefixLength])
                       ELSE added
           /\ call' = [op |-> "ipMap.Add", err |-> r.err]
    /\ lastHas' = NoQuery
    /\ UNCHANGED <<texts, madeIPv4, madeIPv6, raceVars, httpVars>>

\* m.Has(ip)
CallIPMapHas(ip) ==
    /\ lastHas' = [asked |-> TRUE, ip |-> ip, res |-> ipMapHas(trie, ip)]
    /\ call' = [op |-> "ipMap.Has"]
    /\ UNCHANGED <<trie, added, texts, madeIPv4, madeIPv6, raceVars,
                   httpVars>>

\* m.IPs(): call holds what it returned, or that it panicked.
CallIPMapIPs ==
    /\ LET r == ipMapIPs(trie)
       IN  call' = [op |-> "ipMap.IPs", out |-> r.out, panicked |-> r.panicked]
    /\ lastHas' = NoQuery
    /\ UNCHANGED <<trie, added, texts, madeIPv4, madeIPv6, raceVars,
                   httpVars>>

InitIPMap ==
    /\ trie = newIPMap
    /\ added = <<>>
    /\ lastHas = NoQuery
    /\ texts = <<>>
    /\ madeIPv4 = NoIP
    /\ madeIPv6 = NoIP
    /\ call = NoCall
    /\ adders = NoAdders
    /\ reader = NoReader
    /\ store = NoStore
    /\ response = NoResponse

NextIPMap ==
    \/ \E ip \in NetIPPool, prefixLength \in NetPrefixLengthPool :
          CallIPMapAdd(ip, prefixLength)
    \/ \E ip \in NetIPPool : CallIPMapHas(ip)
    \/ CallIPMapIPs

SpecIPMap == InitIPMap /\ [][NextIPMap]_vars

\* The pair r of an Add that returned nil covers the address a: a has the
\* byte length of r.ip and agrees with it on the first r.prefixLength bits.
IPMapCovers(r, a) ==
    /\ DOMAIN a = DOMAIN r.ip
    /\ AgreeOn(r.ip, a, r.prefixLength)

\* C30: after any sequence of Add calls that returned nil, for every added
\* (ip, prefixLength) with 0 <= prefixLength <= 8*len(ip) and every address
\* a of the same byte length as ip that agrees with ip on the first
\* prefixLength bits, Has(a) returns true; this includes prefixLength 0 and
\* ipMaps that hold both 4-byte and 16-byte addresses sharing leading bits.
IPMapCoverage ==
    lastHas.asked =>
       \A k \in 1..Len(added) :
          IPMapCovers(added[k], lastHas.ip) => lastHas.res

\* The ipMap that holds the pairs of out, added in their order.
ReAdded(out) ==
    For(LAMBDA m, i : ipMapAdd(m, out[i + 1].IP, out[i + 1].PrefixLength).m,
        newIPMap, 0, Len(out))

\* C31: ipMap enumeration: after any sequence of successful Add calls, IPs()
\* terminates without failure and returns pairs that carry the address bits
\* and the prefix-length that were passed to Add, so that re-adding every
\* returned pair to an empty ipMap reproduces the same Has answers.
IPMapEnumeration ==
    call.op = "ipMap.IPs" =>
       /\ ~call.panicked
       /\ \A i \in 1..Len(call.out) :
             \E k \in 1..Len(added) :
                /\ call.out[i].PrefixLength = added[k].prefixLength
                /\ IPMapCovers(added[k], call.out[i].IP)
       /\ \A a \in NetIPPool :
             ipMapHas(ReAdded(call.out), a) = ipMapHas(trie, a)

\* ---------------------------------------------------------------------
\* The trie over net.IPs that takes prefix-lengths in terms of the family of
\* the address
\* ---------------------------------------------------------------------

\* len(ip) of a net.IP
len(ip) == Cardinality(DOMAIN ip)

\* A nil net.IP: it has length 0, and the first test of Add and of Has
\* treats it as it treats every slice that is not 4 or 16 bytes long.
nilIP == Bytes(<<>>)

\* isIPv4: ip.To4() is not nil, that is ip has 4 bytes or has 16 bytes that
\* begin with the IPv4-prefix.
isIPv4(ip) ==
    \/ len(ip) = ipv4Length
    \/ len(ip) = ipv6Length /\ To4(ip) # <<>>

\* padTo16: append(ipv4Prefix, ip...) for 4 bytes.
padTo16(ip) ==
    IF len(ip) = ipv4Length
    THEN [i \in 0..(ipv6Length - 1) |->
            IF i < ipv6Length - ipv4Length THEN ipv4Prefix[i]
            ELSE ip[i - (ipv6Length - ipv4Length)]]
    ELSE ip

\* prefixLength += (ipv6Length - ipv4Length) * bitsPerByte on a byte, as it
\* would be on a type wide enough for the sum.
familyPrefixLengthWide(ip, prefixLength) ==
    IF isIPv4(ip)
    THEN prefixLength + (ipv6Length - ipv4Length) * bitsPerByte
    ELSE prefixLength

\* if isIPv4(ip) { prefixLength += (ipv6Length - ipv4Length) * bitsPerByte }
\* on a byte.
familyPrefixLength(ip, prefixLength) ==
    IF isIPv4(ip)
    THEN (prefixLength + (ipv6Length - ipv4Length) * bitsPerByte) % 256
    ELSE prefixLength

\* The end of trie.Add of part_006: the address is well formed and
\* prefixLength has been made relative to 16 bytes.
netTrieAddPadded(m, ip, prefixLength) ==
    IF prefixLength > ipLength THEN m
    ELSE Add(m, [ip |-> padTo16(ip), prefixLength |-> prefixLength])

\* trie.Add of part_006: add the part of the net.IP specified by the
\* prefix-length to the trie.
netTrieAdd(m, ip, prefixLength) ==
    IF len(ip) # ipv4Length /\ len(ip) # ipv6Length THEN m
    ELSE netTrieAddPadded(m, ip, familyPrefixLength(ip, prefixLength))

\* trie.Has of part_006.
netTrieHas(m, ip) ==
    IF len(ip) # ipv4Length /\ len(ip) # ipv6Length THEN FALSE
    ELSE Has(m, padTo16(ip))

\* The net.IPs handed to Add and Has: nil, a one-byte slice, 1.2.3.4 in 4
\* and in 16 bytes, and ::1.
NetTriePool ==
    { nilIP, Bytes(<<255>>), IPv4(1, 2, 3, 4), NewIPv4IP(IPv4(1, 2, 3, 4)),
      LoopbackIP }

\* The prefix-lengths handed to Add.
NetTriePrefixLengthPool == {0, 32, 33, 128, 129, 160, 255}

\* m.Add(ip, prefixLength); added holds the arguments of the calls.
CallNetTrieAdd(ip, prefixLength) ==
    /\ Len(added) < MaxAdds
    /\ trie' = netTrieAdd(trie, ip, prefixLength)
    /\ added' = Append(added, [ip |-> ip, prefixLength |-> prefixLength])
    /\ call' = [op |-> "trie.Add", ip |-> ip, prefixLength |-> prefixLength]
    /\ lastHas' = NoQuery
    /\ UNCHANGED <<texts, madeIPv4, madeIPv6, raceVars, httpVars>>

\* m.Has(ip)
CallNetTrieHas(ip) ==
    /\ lastHas' = [asked |-> TRUE, ip |-> ip, res |-> netTrieHas(trie, ip)]
    /\ call' = [op |-> "trie.Has"]
    /\ UNCHANGED <<trie, added, texts, madeIPv4, madeIPv6, raceVars,
                   httpVars>>

NextNetTrie ==
    \/ \E ip \in NetTriePool, prefixLength \in NetTriePrefixLengthPool :
          CallNetTrieAdd(ip, prefixLength)
    \/ \E ip \in NetTriePool : CallNetTrieHas(ip)

SpecNetTrie == Init /\ [][NextNetTrie]_vars

\* prefixLength exceeds the bit length of the family of ip, or ip is
\* malformed or nil.
InvalidAdd(ip, prefixLength) ==
    \/ len(ip) # ipv4Length /\ len(ip) # ipv6Length
    \/ isIPv4(ip) /\ prefixLength > ipv4Length * bitsPerByte
    \/ ~isIPv4(ip) /\ prefixLength > ipv6Length * bitsPerByte

\* C32: Add ignores invalid prefix-lengths: for every address and every
\* byte value prefixLength that exceeds the bit length of the address's
\* family (over 32 for an IPv4 address, over 128 for an IPv6 address, up to
\* 255), Add leaves the trie unchanged, so Has answers are the same as before
\* the call; malformed or nil addresses are ignored likewise.
InvalidAddIgnored ==
    [][(call'.op = "trie.Add" /\ InvalidAdd(call'.ip, call'.prefixLength)) =>
          /\ trie' = trie
          /\ \A a \in NetTriePool :
                netTrieHas(trie', a) = netTrieHas(trie, a)]_vars

\* ---------------------------------------------------------------------
\* The handler of part_002, which keeps its bans in an ipMap and loads them
\* with loadBans
\* ---------------------------------------------------------------------

\* A nil *ipMap: reading m.root through it panics.
nilIPMap == [root |-> nil, heap |-> <<>>]

\* ip.Mask(net.CIDRMask(n, 8*len(ip))): the bits from n on are cleared.
maskIP(ip, n) ==
    [j \in DOMAIN ip |->
        IF n >= bitsPerByte * (j + 1) THEN ip[j]
        ELSE IF n <= bitsPerByte * j THEN 0
        ELSE (ip[j] \div 2^(bitsPerByte * (j + 1) - n))
                * 2^(bitsPerByte * (j + 1) - n)]

\* The end of net.ParseCIDR: ip is the address parsed, of iplen bytes, and d
\* what dtoi found in mask.
parseCIDRMask(ip, iplen, mask, d) ==
    IF ~ip.ok \/ ~d.ok \/ d.i # Len(mask) \/ d.n > bitsPerByte * iplen
    THEN [ok |-> FALSE, ip |-> nilIP, n |-> 0]
    ELSE [ok |-> TRUE,
          ip |-> maskIP(IF iplen = ipv4Length
                        THEN Bytes(To4(ip.ip)) ELSE ip.ip, d.n),
          n |-> d.n]

\* net.ParseCIDR once addr is known not to be a dotted quad or to be ip4.
parseCIDRAddr(addr, mask, ip4) ==
    IF ip4.ok THEN parseCIDRMask(ip4, ipv4Length, mask, dtoi(mask))
    ELSE parseCIDRMask(parseIPv6(addr), ipv6Length, mask, dtoi(mask))

\* net.ParseCIDR after the search for '/' has returned i.
parseCIDRAt(s, i) ==
    IF i < 0 THEN [ok |-> FALSE, ip |-> nilIP, n |-> 0]
    ELSE parseCIDRAddr(Slice(s, 0, i), Drop(s, i + 1),
                       parseIPv4(Slice(s, 0, i)))

\* net.ParseCIDR: the masked address of the network, in 4 or 16 bytes, and
\* the number of ones of its mask.
ParseCIDR(s) == parseCIDRAt(s, IndexByte(s, "/"))

\* The end of the body of the loop of loadBans: net.ParseCIDR has returned
\* c for the line. The error of ips.Add is dropped.
loadBansParsed(acc, c) ==
    IF ~c.ok THEN [ips |-> nilIPMap, err |-> "invalid CIDR address"]
    ELSE [acc EXCEPT !.ips = ipMapAdd(@, c.ip, c.n % 256).m]

\* The body of the loop of loadBans for one line; acc.err is set once the
\* function has returned an error.
loadBansLine(acc, line) ==
    IF acc.err # nilError THEN acc
    ELSE IF Len(line) = 0 THEN acc
    ELSE loadBansParsed(acc, ParseCIDR(line))

\* loadBans once the file has been read and split into lines.
loadBansLines(ls) ==
    For(LAMBDA acc, i : loadBansLine(acc, ls[i + 1]),
        [ips |-> newIPMap, err |-> nilError], 0, Len(ls))

\* loadBans: the *ipMap and the error it returns. readable is whether
\* ioutil.ReadFile can read a file that exists.
loadBans(file, readable) ==
    IF ~file.exists THEN [ips |-> nilIPMap, err |-> nilError]
    ELSE IF ~readable THEN [ips |-> nilIPMap, err |-> ErrRead]
    ELSE loadBansLines(Split(fileBytes(file.lines), "\n"))

\* Handler after loadBans has returned r. call holds the number of calls of
\* the ErrorHandler.
HandlerLoaded(r) ==
    /\ trie' = IF r.err # nilError THEN newIPMap ELSE r.ips
    /\ call' = [op |-> "Handler",
                errors |-> IF r.err # nilError THEN 1 ELSE 0]

\* Handler for a Config whose Store names the file of store: a new handler
\* takes the place of the one before. The goroutine it starts waits for a
\* signal and is not run here.
Handler(readable) ==
    /\ store.open
    /\ HandlerLoaded(loadBans(store, readable))
    /\ response' = [NoResponse EXCEPT !.served = response.served]
    /\ UNCHANGED <<added, lastHas, texts, madeIPv4, madeIPv6, raceVars, store>>

\* parseIP of part_002 after net.ParseIP has returned nip: the 4 bytes of
\* an IPv4 address, the 16 bytes of another, nil for a host that is no
\* address.
parseIPHost(nip) ==
    IF ~nip.ok THEN [ip |-> nilIP, err |-> nilError]
    ELSE IF To4(nip.ip) # <<>>
    THEN [ip |-> Bytes(To4(nip.ip)), err |-> nilError]
    ELSE [ip |-> nip.ip, err |-> nilError]

\* parseIP of part_002 after net.SplitHostPort has returned r.
parseIPSplit(r) ==
    IF r.err # nilError THEN [ip |-> nilIP, err |-> r.err]
    ELSE parseIPHost(netParseIP(r.host))

\* parseIP of part_002: the net.IP of the remote-address of an http.Request.
parseIP(addr) == parseIPSplit(SplitHostPort(addr))

\* What handler.ServeHTTP did: wrote names what it wrote to the
\* http.ResponseWriter ("ban" for writeBan, "badAddr" for writeBadAddr,
\* "none" if only the wrapped http.Handler wrote), has is what h.ips.Has
\* returned, answer what the Banner returned, passed counts the calls of the
\* wrapped http.Handler and errors those of the ErrorHandler. panicked is
\* set if the call ended in a run-time panic.
HandlerServed(wrote, ip, has, answer, passed, errors, panicked) ==
    [served |-> response.served + 1, status |-> StatusOK, wrote |-> wrote,
     ip |-> ip, has |-> has, answer |-> answer, passed |-> passed,
     errors |-> errors, panicked |-> panicked]

\* pl of handler.ServeHTTP: byte(len(ip)) * 8 or ban.PrefixLength.
handlerPrefixLength(ip, ban) ==
    IF ban.shouldBanIP THEN ipLen(ip) ELSE ban.PrefixLength

\* handler.ServeHTTP from the call of h.ips.Add, which returned r.
handlerServeBan(ip, ban, r) ==
    /\ trie' = r.m
    /\ response' = HandlerServed("ban", ip, FALSE, ban, 0,
                                 IF r.err # nilError THEN 1 ELSE 0, FALSE)

\* handler.ServeHTTP from the return of h.ips.Has, which returned has.
handlerServeChecked(ip, has, ban) ==
    IF has
    THEN /\ response' = HandlerServed("ban", ip, TRUE, NotAsked, 0, 0, FALSE)
         /\ UNCHANGED trie
    ELSE IF ban # NoBan
    THEN handlerServeBan(ip, ban,
                         ipMapAdd(trie, ip, handlerPrefixLength(ip, ban)))
    ELSE /\ response' = HandlerServed("none", ip, FALSE, ban, 1, 0, FALSE)
         /\ UNCHANGED trie

\* handler.ServeHTTP from the return of parseIP, which returned r. h.ips.Has
\* reads m.root, which panics on the nil *ipMap.
handlerServeParsed(r, ban) ==
    IF r.err # nilError
    THEN /\ response' = HandlerServed("badAddr", nilIP, FALSE, NotAsked, 0, 1,
                                      FALSE)
         /\ UNCHANGED trie
    ELSE IF trie = nilIPMap
    THEN /\ response' = HandlerServed("none", r.ip, FALSE, NotAsked, 0, 0,
                                      TRUE)
         /\ UNCHANGED trie
    ELSE handlerServeChecked(r.ip, ipMapHas(trie, r.ip), ban)

\* handler.ServeHTTP for a request from remoteAddr; ban is what the Banner
\* returns for the request.
handlerServeHTTP(remoteAddr, ban) ==
    /\ response.served < MaxRequests
    /\ handlerServeParsed(parseIP(remoteAddr), ban)
    /\ call' = [op |-> "ServeHTTP", remoteAddr |-> remoteAddr]
    /\ UNCHANGED <<added, lastHas, texts, madeIPv4, madeIPv6, raceVars, store>>

\* "1.2.3.4/32"
Text1234Slash32 ==
    <<"1", ".", "2", ".", "3", ".", "4", "/", "3", "2">>

\* The files Config.Store names: a missing one, an empty one, one with a
\* record, one with a record that net.ParseCIDR rejects.
HandlerFilePool ==
    { EmptyStore,
      [open |-> TRUE, exists |-> TRUE, lines |-> <<>>],
      [open |-> TRUE, exists |-> TRUE, lines |-> <<Text1234Slash32>>],
      [open |-> TRUE, exists |-> TRUE, lines |-> <<Text1234Slash128>>] }

\* The remote-addresses of the requests and what the Banner may return.
HandlerRemoteAddrPool == {Remote1234, Remote1235, RemoteV6One, RemoteNoPort}
HandlerBanPool == {NoBan, IPBan, Ban(8)}

\* No handler has been made yet; the file is any of HandlerFilePool.
InitHandler ==
    /\ trie = newIPMap
    /\ added = <<>>
    /\ lastHas = NoQuery
    /\ texts = <<>>
    /\ madeIPv4 = NoIP
    /\ madeIPv6 = NoIP
    /\ call = NoCall
    /\ adders = NoAdders
    /\ reader = NoReader
    /\ store \in HandlerFilePool
    /\ response = NoResponse

\* Handlers are made on the file one after the other, and each serves its
\* requests one after the other.
NextHandler ==
    \/ \E readable \in BOOLEAN : Handler(readable)
    \/ \E remoteAddr \in HandlerRemoteAddrPool, ban \in HandlerBanPool :
          call # NoCall /\ handlerServeHTTP(remoteAddr, ban)

SpecHandler == InitHandler /\ [][NextHandler]_vars

\* C33: when Config.Store names a file that does not exist, loading returns
\* an empty ban structure and no error: the handler built by the
\* constructor has an empty ban set, the ErrorHandler is not invoked, and
\* the first request from any address is processed normally (Has answers
\* false and the Banner is consulted).
MissingStore ==
    [][/\ (call'.op = "Handler" /\ ~store.exists) =>
             /\ trie' = newIPMap
             /\ call'.errors = 0
       /\ (call.op = "Handler" /\ call'.op = "ServeHTTP" /\ ~store.exists
             /\ response'.wrote # "badAddr") =>
             /\ ~response'.panicked
             /\ ~response'.has
             /\ response'.answer # NotAsked]_vars

\* ---------------------------------------------------------------------
\* Claims about what stands behind the answers of the Handler
\* ---------------------------------------------------------------------

\* The request before this one was answered "is banned", and this one comes
\* from the same IP.
AfterBannedAnswer ==
    /\ response.served > 0
    /\ response.parsed
    /\ SaysBanned(response)
    /\ ServedParsed
    /\ response'.ip = response.ip

WriteFailed ==
    /\ ServedParsed
    /\ store.open
    /\ response'.answer \in RangeBans
    /\ store' = store

\* The record of a ban that covers a is missing from the file.
CoveredByUnwrittenBan(a) ==
    \E k \in 1..Len(added) : ~Written(k) /\ Covers(added[k], a)

RecordOnce ==
    \A i, j \in 1..Len(store.lines) :
       i # j => store.lines[i] # store.lines[j]

\* ---------------------------------------------------------------------
\* Specification: goroutines that run trie.Has at the same time. reader
\* holds one record per goroutine; no goroutine writes the trie, so every
\* read returns the value in memory.
\* ---------------------------------------------------------------------

\* Number of goroutines that run trie.Has at the same time.
MaxReaders == 2

\* The PrefixedIPs that are in the trie before the goroutines start.
ReadersStoredPool ==
    { <<>>,
      <<[ip |-> LoopbackIP, prefixLength |-> 128]>>,
      <<[ip |-> IPBits10, prefixLength |-> 2],
        [ip |-> IPBits01, prefixLength |-> 3]>>,
      <<[ip |-> ZeroIP, prefixLength |-> 0]>> }

\* The IPs the goroutines look up, each goroutine another one.
ReadersQueryPool == {IPBits10, IPBits01, LoopbackIP}

InitReaders ==
    /\ added \in ReadersStoredPool
    /\ trie = AddAll(added, [i \in 1..Len(added) |-> i])
    /\ lastHas = NoQuery
    /\ texts = <<>>
    /\ madeIPv4 = NoIP
    /\ madeIPv6 = NoIP
    /\ call = NoCall
    /\ adders = NoAdders
    /\ reader = <<>>
    /\ store = NoStore
    /\ response = NoResponse

\* A goroutine calls m.Has(ip): line 121 of trie.Has.
StartReader(ip) ==
    /\ Len(reader) < MaxReaders
    /\ \A h \in DOMAIN reader : reader[h].ip # ip
    /\ reader' = Append(reader, [pc |-> "testEnd", ip |-> ip, i |-> 0,
                                 current |-> trie.root, res |-> FALSE])
    /\ UNCHANGED <<trie, added, lastHas, texts, ipVars, adders, httpVars>>

\* if current.IsEnd { return true }, run by goroutine h
ReaderTestEnd(h) ==
    /\ reader[h].pc = "testEnd"
    /\ reader' = [reader EXCEPT ![h] =
                     IF trie.heap[reader[h].current].IsEnd
                     THEN [@ EXCEPT !.pc = "done", !.res = TRUE]
                     ELSE [@ EXCEPT !.pc = "descend"]]
    /\ UNCHANGED <<trie, added, lastHas, texts, ipVars, adders, httpVars>>

\* The goroutine h after current.Children[child] has been read as next.
ReaderDescended(r, next) ==
    IF next = nil
    THEN [r EXCEPT !.current = nil, !.pc = "done", !.res = FALSE]
    ELSE [r EXCEPT !.current = next, !.i = @ + 1,
                   !.pc = IF r.i + 1 < ipLength THEN "testEnd" ELSE "final"]

\* ReaderDescend as it would be if trie.Has made the child it does not
\* find, as trie.Add does.
ReaderDescendAllocates(h) ==
    /\ reader[h].pc = "descend"
    /\ LET n == reader[h].current
           child == bitAtIndex(reader[h].ip, reader[h].i)
       IN  IF trie.heap[n].Children[child] = nil
           THEN /\ trie' = [trie EXCEPT !.heap =
                              Append([@ EXCEPT ![n].Children[child] =
                                         Len(trie.heap) + 1], node)]
                /\ reader' = [reader EXCEPT ![h] =
                                 ReaderDescended(@, Len(trie.heap) + 1)]
           ELSE /\ trie' = trie
                /\ reader' = [reader EXCEPT ![h] =
                                 ReaderDescended(@,
                                                 trie.heap[n].Children[child])]
    /\ UNCHANGED <<added, lastHas, texts, ipVars, adders, httpVars>>

\* current = current.Children[child]; if current == nil { break }, then i++
\* and the test i < ipLength; after the break, return false
ReaderDescend(h) ==
    /\ reader[h].pc = "descend"
    /\ reader' = [reader EXCEPT ![h] =
                     ReaderDescended(@,
                        trie.heap[reader[h].current].Children[
                           bitAtIndex(reader[h].ip, reader[h].i)])]
    /\ UNCHANGED <<trie, added, lastHas, texts, ipVars, adders, httpVars>>

\* return current != nil && current.IsEnd, after the last iteration
ReaderFinal(h) ==
    /\ reader[h].pc = "final"
    /\ reader' = [reader EXCEPT ![h] =
                     [@ EXCEPT !.pc = "done",
                               !.res = trie.heap[reader[h].current].IsEnd]]
    /\ UNCHANGED <<trie, added, lastHas, texts, ipVars, adders, httpVars>>

NextReaders ==
    \/ \E ip \in ReadersQueryPool : StartReader(ip)
    \/ \E h \in DOMAIN reader : ReaderTestEnd(h)
    \/ \E h \in DOMAIN reader : ReaderDescend(h)
    \/ \E h \in DOMAIN reader : ReaderFinal(h)

SpecReaders == InitReaders /\ [][NextReaders]_vars

\* The goroutine h returns in this step.
Returns(h) ==
    /\ reader'[h].pc = "done"
    /\ h \in DOMAIN reader
    /\ reader[h].pc # "done"

\* C37: Has is read-only: for every trie state and every address, Has
\* allocates no node and changes no terminal flag or child link, so any
\* number of Has calls (also concurrently with each other) leave every later
\* Has and Add result unchanged: the trie stays the one the calls found, and
\* each call returns what Has returns on it when it runs alone.
ReadOnlyHas ==
    [][reader' # reader =>
          /\ Len(trie'.heap) = Len(trie.heap)
          /\ trie' = trie
          /\ \A h \in DOMAIN reader' :
                Returns(h) => reader'[h].res = Has(trie, reader'[h].ip)]_vars

\* C37 witness: two goroutines have run trie.Has at the same time on a trie
\* of two ranges, one found its IP and the other did not.
ReadOnlyHasWitness ==
    /\ Len(reader) = 2
    /\ Len(added) = 2
    /\ reader[1].pc = "done"
    /\ reader[2].pc = "done"
    /\ reader[1].res
    /\ ~reader[2].res
    /\ reader[2].i > 0
====
